---- MODULE Spec2Model ----
(***************************************************************************)
(* Model of the document scanner's extraction pipeline:                    *)
(*   backend/app/utils/field_mapping.py      (canonicalization, gate)      *)
(*   backend/app/utils/ai.py                 (classification)              *)
(*   backend/app/services/document_processor.py (field cleaning)           *)
(*   backend/app/services/extractor.py       (per-field scoring)           *)
(*   backend/app/services/classifier.py      (supported-type check)        *)
(*   backend/app/api/endpoints.py            (document API)                *)
(*   backend/app/models/db_models.py         (tables)                      *)
(*                                                                         *)
(* Python strings are TLA+ strings, handled character by character with    *)
(* Len, SubSeq and \o.  A Python dict is a sequence of <<key, value>>      *)
(* pairs in insertion order with distinct keys.                            *)
(***************************************************************************)
EXTENDS Integers, Sequences, FiniteSets, TLC

VARIABLES
    pc,               \* position of the pipeline
    doc_type,         \* the doc_type argument / classification result
    extracted_fields, \* raw recognition result (ordered dict)
    standardized,     \* canonical field set (ordered dict)
    is_valid,         \* validate_required_fields()[0]
    missing,          \* validate_required_fields()[1], as a set
    removed,          \* required field deleted from the field set last, or ""
    text,             \* text handed to get_gpt_classification
    field_name,       \* field name handed to _validate_field
    value,            \* value handed to _validate_field
    cleaned,          \* values returned by successive _validate_field calls
    now,              \* datetime.now() as <<year, month, day>>
    scored,           \* per-field scoring records
    image,            \* the file under image_path, as PIL and os see it
    requested,        \* the fields argument of get_gpt_extraction
    response,         \* what the recognition service answers
    calls,            \* calls made to the recognition service
    outcome,          \* what the handler returned or raised
    upload,           \* the file_contents argument of process_image
    requests,         \* the create_document requests in progress
    files,            \* the files written under the uploads directory
    documents,        \* the documents table, by id
    field_rows,       \* the extracted_fields table, in the order of its row ids
    reply             \* the request the document API answered last, with its answer

vars == <<pc, doc_type, extracted_fields, standardized, is_valid, missing,
          removed, text, field_name, value, cleaned, now, scored,
          image, requested, response, calls, outcome,
          upload, requests, files, documents, field_rows, reply>>

\* the variables of the recognition adapter and its callers
adapterVars == <<image, requested, response, calls, outcome>>

\* no file, no request, no answer
NoRecognition ==
    /\ image = <<>>
    /\ requested = <<>>
    /\ response = <<>>
    /\ calls = 0
    /\ outcome = <<>>

\* the variables of process_image's caller and of the upload endpoint
serverVars == <<upload, requests, files, documents, field_rows, reply>>

\* the tables and the last answer of the document API
dbVars == <<documents, field_rows, reply>>

\* empty tables, no request answered
NoDb ==
    /\ documents = {}
    /\ field_rows = <<>>
    /\ reply = <<>>

\* no upload, no request in progress, no file written
NoServer ==
    /\ upload = <<>>
    /\ requests = <<>>
    /\ files = <<>>
    /\ NoDb

NOT_FOUND == "NOT_FOUND"

\* Python None
None == "<None>"

-----------------------------------------------------------------------------
(* Strings *)

\* s[i-1:i], the empty string outside the string
Char(s, i) == IF i \in 1..Len(s) THEN SubSeq(s, i, i) ELSE ""

UpperToLower ==
    [c \in {"A","B","C","D","E","F","G","H","I","J","K","L","M","N","O","P","Q",
            "R","S","T","U","V","W","X","Y","Z"} |->
        CASE c = "A" -> "a" [] c = "B" -> "b" [] c = "C" -> "c" [] c = "D" -> "d"
          [] c = "E" -> "e" [] c = "F" -> "f" [] c = "G" -> "g" [] c = "H" -> "h"
          [] c = "I" -> "i" [] c = "J" -> "j" [] c = "K" -> "k" [] c = "L" -> "l"
          [] c = "M" -> "m" [] c = "N" -> "n" [] c = "O" -> "o" [] c = "P" -> "p"
          [] c = "Q" -> "q" [] c = "R" -> "r" [] c = "S" -> "s" [] c = "T" -> "t"
          [] c = "U" -> "u" [] c = "V" -> "v" [] c = "W" -> "w" [] c = "X" -> "x"
          [] c = "Y" -> "y" [] c = "Z" -> "z"]

LowerChar(c) == IF c \in DOMAIN UpperToLower THEN UpperToLower[c] ELSE c

RECURSIVE Lower(_)
\* str.lower()
Lower(s) ==
    IF s = "" THEN "" ELSE LowerChar(Char(s, 1)) \o Lower(SubSeq(s, 2, Len(s)))

\* sub in s
Contains(s, sub) ==
    \E i \in 1..(Len(s) - Len(sub) + 1) : SubSeq(s, i, i + Len(sub) - 1) = sub

Whitespace == {" ", "\t", "\n", "\r"}

RECURSIVE LStrip(_)
LStrip(s) ==
    IF s # "" /\ Char(s, 1) \in Whitespace THEN LStrip(SubSeq(s, 2, Len(s))) ELSE s

RECURSIVE RStrip(_)
RStrip(s) ==
    IF s # "" /\ Char(s, Len(s)) \in Whitespace
    THEN RStrip(SubSeq(s, 1, Len(s) - 1)) ELSE s

\* str.strip()
Strip(s) == RStrip(LStrip(s))

\* index of the first space of s, 0 when there is none
FirstSpace(s) ==
    IF Contains(s, " ")
    THEN CHOOSE i \in 1..Len(s) :
            Char(s, i) = " " /\ \A j \in 1..(i - 1) : Char(s, j) # " "
    ELSE 0

\* s.split(' ', 1)
SplitFirstSpace(s) ==
    IF FirstSpace(s) = 0 THEN <<s>>
    ELSE <<SubSeq(s, 1, FirstSpace(s) - 1), SubSeq(s, FirstSpace(s) + 1, Len(s))>>

UpperChar(c) ==
    IF \E u \in DOMAIN UpperToLower : UpperToLower[u] = c
    THEN CHOOSE u \in DOMAIN UpperToLower : UpperToLower[u] = c
    ELSE c

RECURSIVE Upper(_)
\* str.upper()
Upper(s) ==
    IF s = "" THEN "" ELSE UpperChar(Char(s, 1)) \o Upper(SubSeq(s, 2, Len(s)))

Digits == {"0", "1", "2", "3", "4", "5", "6", "7", "8", "9"}

UpperLetters == DOMAIN UpperToLower

LowerLetters == {UpperToLower[u] : u \in UpperLetters}

\* every character of s is in the class cs
AllIn(s, cs) == \A i \in 1..Len(s) : Char(s, i) \in cs

\* s[i .. i+n-1] exists and is made of digits
DigitsAt(s, i, n) == i >= 1 /\ i + n - 1 <= Len(s) /\ AllIn(SubSeq(s, i, i + n - 1), Digits)

DigitValue(c) ==
    CASE c = "0" -> 0 [] c = "1" -> 1 [] c = "2" -> 2 [] c = "3" -> 3 [] c = "4" -> 4
      [] c = "5" -> 5 [] c = "6" -> 6 [] c = "7" -> 7 [] c = "8" -> 8 [] c = "9" -> 9

RECURSIVE StrToInt(_)
\* int(s) for a string of digits
StrToInt(s) ==
    IF s = "" THEN 0
    ELSE 10 * StrToInt(SubSeq(s, 1, Len(s) - 1)) + DigitValue(Char(s, Len(s)))

DigitChar(n) == CHOOSE c \in Digits : DigitValue(c) = n

RECURSIVE IntToStr(_)
\* str(n) for n >= 0
IntToStr(n) == IF n < 10 THEN DigitChar(n) ELSE IntToStr(n \div 10) \o DigitChar(n % 10)

\* f"{n:02d}" for n >= 0
Pad2(n) == IF n < 10 THEN "0" \o IntToStr(n) ELSE IntToStr(n)

-----------------------------------------------------------------------------
(* Ordered dicts *)

DictKeys(d) == {d[i][1] : i \in 1..Len(d)}

DictHas(d, k) == k \in DictKeys(d)

\* d[k]
DictGet(d, k) == d[CHOOSE i \in 1..Len(d) : d[i][1] = k][2]

\* d[k] = v
DictSet(d, k, v) ==
    IF DictHas(d, k)
    THEN [i \in 1..Len(d) |-> IF d[i][1] = k THEN <<k, v>> ELSE d[i]]
    ELSE Append(d, <<k, v>>)

RECURSIVE DictDel(_, _)
\* the dict without key k
DictDel(d, k) ==
    IF d = <<>> THEN <<>>
    ELSE IF Head(d)[1] = k THEN DictDel(Tail(d), k)
    ELSE <<Head(d)>> \o DictDel(Tail(d), k)

-----------------------------------------------------------------------------
(* field_mapping.py *)

REQUIRED_FIELDS ==
    ("passport" :>
        {"full_name", "date_of_birth", "country", "issue_date", "expiration_date"})
    @@ ("drivers_license" :>
        {"license_number", "date_of_birth", "issue_date", "expiration_date",
         "first_name", "last_name"})
    @@ ("ead_card" :>
        {"card_number", "category", "first_name", "last_name", "card_expires_date"})

FIELD_ALIASES ==
    ("passport_number" :> "document_number")
    @@ ("passport_no" :> "document_number")
    @@ ("passportno" :> "document_number")
    @@ ("surname" :> "last_name")
    @@ ("given_names" :> "first_name")
    @@ ("given_name" :> "first_name")
    @@ ("name" :> "full_name")
    @@ ("country_of_issuance" :> "nationality")
    @@ ("date_of_expiry" :> "expiration_date")
    @@ ("expires" :> "expiration_date")
    @@ ("date_of_issue" :> "issue_date")
    @@ ("birthdate" :> "date_of_birth")
    @@ ("birth_date" :> "date_of_birth")
    @@ ("dob" :> "date_of_birth")
    @@ ("license_no" :> "license_number")
    @@ ("dl_number" :> "license_number")
    @@ ("dl" :> "license_number")
    @@ ("driver_license_number" :> "license_number")
    @@ ("drivers_license_number" :> "license_number")
    @@ ("operator_license" :> "license_number")
    @@ ("document_number" :> "license_number")
    @@ ("fname" :> "first_name")
    @@ ("lname" :> "last_name")
    @@ ("issue" :> "issue_date")
    @@ ("expiry" :> "expiration_date")
    @@ ("expiration" :> "expiration_date")
    @@ ("expires_on" :> "expiration_date")
    @@ ("expires_date" :> "expiration_date")
    @@ ("card_expires_date" :> "expiration_date")
    @@ ("issued_on" :> "issue_date")
    @@ ("ead_number" :> "card_number")
    @@ ("card#" :> "card_number")
    @@ ("card_#" :> "card_number")
    @@ ("authorization_number" :> "card_number")
    @@ ("employment_authorization_number" :> "card_number")
    @@ ("valid_until" :> "card_expires_date")
    @@ ("first" :> "first_name")
    @@ ("last" :> "last_name")
    @@ ("ead_category" :> "category")
    @@ ("class" :> "category")

\* mutant: an alias that is itself aliased is resolved once more
AliasGet_Chained(name) ==
    LET a == IF name \in DOMAIN FIELD_ALIASES THEN FIELD_ALIASES[name] ELSE name
    IN IF a \in DOMAIN FIELD_ALIASES THEN FIELD_ALIASES[a] ELSE a

\* FIELD_ALIASES.get(name, name)
AliasGet(name) == IF name \in DOMAIN FIELD_ALIASES THEN FIELD_ALIASES[name] ELSE name

\* the doc_type conversion at the head of standardize_field_names
NormalizeDocType(t) ==
    IF Lower(t) \in {"driver", "drivers_license", "driver_license", "dl", "driver license"}
    THEN "drivers_license"
    ELSE IF Lower(t) \in {"passport", "pasport", "p"} THEN "passport"
    ELSE IF Lower(t) \in {"ead", "employment_authorization", "ead_card"} THEN "ead_card"
    ELSE t

TypeLabel(t, other) ==
    IF t = "passport" THEN "Passport"
    ELSE IF t = "drivers_license" THEN "Driver's License"
    ELSE IF t = "ead_card" THEN "EAD Card"
    ELSE other

\* the document_type entry written before the loop; t is the converted doc_type
DocumentTypeEntry(fields, t) ==
    IF DictHas(fields, "document_type")
    THEN IF DictGet(fields, "document_type") = "P" THEN "Passport"
         ELSE TypeLabel(t, DictGet(fields, "document_type"))
    ELSE TypeLabel(t, t)

\* the loop does nothing for this raw field name
SkippedName(name) == name = "document_type"

\* mutant: expiration_date resolved through the alias table alone
StdFieldName_NoTypeCase(name, t) ==
    IF Lower(name) = "country" /\ t = "passport" THEN "country"
    ELSE AliasGet(Lower(name))

\* std_field_name of one raw field name; t is the converted doc_type
StdFieldName(name, t) ==
    IF Lower(name) = "expiration_date"
    THEN IF t = "ead_card" THEN "card_expires_date" ELSE "expiration_date"
    ELSE IF Lower(name) = "country" /\ t = "passport" THEN "country"
    ELSE AliasGet(Lower(name))

\* a passport's country also fills a nationality that is not there yet
WithNationality(std, name, v, t) ==
    IF Lower(name) = "country" /\ t = "passport" /\ ~DictHas(std, "nationality")
    THEN DictSet(std, "nationality", v)
    ELSE std

\* index of the last space of s, 0 when there is none
LastSpace(s) ==
    IF Contains(s, " ")
    THEN CHOOSE i \in 1..Len(s) :
            Char(s, i) = " " /\ \A j \in (i + 1)..Len(s) : Char(s, j) # " "
    ELSE 0

\* mutant: the split is made at the last space (rsplit)
WithNameSplit_LastSpace(std, std_field_name, v) ==
    IF std_field_name = "full_name" /\ Contains(v, " ") /\ v # NOT_FOUND
       /\ LastSpace(Strip(v)) > 0
    THEN LET s == Strip(v)
             s1 == IF ~DictHas(std, "first_name")
                   THEN DictSet(std, "first_name", SubSeq(s, 1, LastSpace(s) - 1))
                   ELSE std
         IN IF ~DictHas(s1, "last_name")
            THEN DictSet(s1, "last_name", SubSeq(s, LastSpace(s) + 1, Len(s)))
            ELSE s1
    ELSE std

\* mutant: the split writes both name parts, present or not
WithNameSplit_Overwrite(std, std_field_name, v) ==
    IF std_field_name = "full_name" /\ Contains(v, " ") /\ v # NOT_FOUND
       /\ Len(SplitFirstSpace(Strip(v))) >= 2
    THEN DictSet(DictSet(std, "first_name", SplitFirstSpace(Strip(v))[1]),
                 "last_name", SplitFirstSpace(Strip(v))[2])
    ELSE std

\* full_name is split into the name parts that are not there yet
WithNameSplit(std, std_field_name, v) ==
    IF std_field_name = "full_name" /\ Contains(v, " ") /\ v # NOT_FOUND
       /\ Len(SplitFirstSpace(Strip(v))) >= 2
    THEN LET parts == SplitFirstSpace(Strip(v))
             s1 == IF ~DictHas(std, "first_name")
                   THEN DictSet(std, "first_name", parts[1]) ELSE std
         IN IF ~DictHas(s1, "last_name") THEN DictSet(s1, "last_name", parts[2]) ELSE s1
    ELSE std

\* one iteration of the loop over extracted_fields.items()
StdStep(std, name, v, t) ==
    IF SkippedName(name) THEN std
    ELSE WithNameSplit(
            DictSet(WithNationality(std, name, v, t), StdFieldName(name, t), v),
            StdFieldName(name, t), v)

RECURSIVE StdLoop(_, _, _)
StdLoop(std, fields, t) ==
    IF fields = <<>> THEN std
    ELSE StdLoop(StdStep(std, Head(fields)[1], Head(fields)[2], t), Tail(fields), t)

\* the passport special case after the loop
PassportIssueDate(std, t) ==
    IF t = "passport"
       /\ (~DictHas(std, "issue_date") \/ DictGet(std, "issue_date") = NOT_FOUND)
    THEN IF DictHas(std, "date_of_issue") /\ DictGet(std, "date_of_issue") # NOT_FOUND
         THEN DictSet(std, "issue_date", DictGet(std, "date_of_issue"))
         ELSE DictSet(std, "issue_date", "Unknown")
    ELSE std

standardize_field_names(fields, t) ==
    PassportIssueDate(
        StdLoop(<< <<"document_type", DocumentTypeEntry(fields, NormalizeDocType(t))>> >>,
                fields, NormalizeDocType(t)),
        NormalizeDocType(t))

KnownTypes == {"passport", "drivers_license", "ead_card"}

\* the doc_type conversion at the head of validate_required_fields; None when
\* the function returns early for an unknown type
ValidateDocType(t) ==
    IF NormalizeDocType(t) \in KnownTypes THEN NormalizeDocType(t) ELSE None

\* mutant: a passport's issue_date is never reported, whatever its value
IsMissing_PassportLenient(fields, field, t) ==
    IF field = "issue_date" /\ t = "passport" THEN FALSE
    ELSE ~DictHas(fields, field) \/ DictGet(fields, field) = NOT_FOUND

\* one pass of the loop over the required fields: is this field missing?
IsMissing(fields, field, t) ==
    IF field = "issue_date" /\ t = "passport"
       /\ DictHas(fields, field) /\ DictGet(fields, field) = "Unknown"
    THEN FALSE
    ELSE ~DictHas(fields, field) \/ DictGet(fields, field) = NOT_FOUND

UnknownTypeMessage == "Unknown document type - cannot validate required fields"

\* validate_required_fields, returning <<is_valid, set(missing)>>
validate_required_fields(fields, t) ==
    IF ValidateDocType(t) = None THEN <<FALSE, {UnknownTypeMessage}>>
    ELSE LET miss == {f \in REQUIRED_FIELDS[ValidateDocType(t)] :
                        IsMissing(fields, f, ValidateDocType(t))}
         IN <<miss = {}, miss>>

-----------------------------------------------------------------------------
(* Inputs of the canonicalization pipeline *)

\* most fields of one raw recognition result
MaxFields == 2

\* raw field names the recognition service may answer with
RawNames ==
    {"document_type", "Document_Type", "expiration_date", "Expiration_Date",
     "card_expires_date", "valid_until", "full_name", "name", "first_name",
     "surname", "issue_date", "date_of_issue", "country", "nationality"}

\* raw values, as validate_gpt_response leaves them: stripped, never empty
ValuesFor(name) ==
    IF Lower(name) = "document_type" THEN {NOT_FOUND, "P", "DRIVER LICENSE"}
    ELSE IF name = "full_name" THEN {NOT_FOUND, "JOHN SMITH", "MARY ANNE JOHNSON"}
    ELSE IF name = "name" THEN {NOT_FOUND, "MADONNA", "JOSE  DIAZ"}
    ELSE IF name \in {"first_name", "surname"} THEN {NOT_FOUND, "ALEX"}
    ELSE IF name \in {"country", "nationality"} THEN {NOT_FOUND, "USA"}
    ELSE IF name = "expiration_date" THEN {NOT_FOUND, "01/01/2025"}
    ELSE IF name = "Expiration_Date" THEN {NOT_FOUND, "12/31/2030"}
    ELSE IF name \in {"card_expires_date", "valid_until"} THEN {NOT_FOUND, "07/04/2027"}
    ELSE IF name = "issue_date" THEN {NOT_FOUND, "03/03/2019"}
    ELSE {NOT_FOUND, "02/02/2018"}

RawPairs == UNION {{<<n, v>> : v \in ValuesFor(n)} : n \in RawNames}

\* ordered dicts of at most MaxFields raw fields
RawResults ==
    UNION {{d \in [1..k -> RawPairs] :
                \A i, j \in 1..k : i # j => d[i][1] # d[j][1]} : k \in 0..MaxFields}

\* doc_type arguments: the three known types, a spelling variant, an unknown type
DocTypes == {"passport", "drivers_license", "ead_card", "EAD", "unknown"}

NoDate == <<0, 0, 0>>

-----------------------------------------------------------------------------
(* Canonicalization followed by the validation gate *)

Init ==
    /\ pc = "raw"
    /\ doc_type \in DocTypes
    /\ extracted_fields \in RawResults
    /\ standardized = <<>>
    /\ is_valid = FALSE
    /\ missing = {}
    /\ removed = ""
    /\ text = ""
    /\ field_name = ""
    /\ value = ""
    /\ cleaned = <<>>
    /\ now = NoDate
    /\ scored = <<>>
    /\ NoRecognition
    /\ NoServer

Standardize ==
    /\ pc = "raw"
    /\ standardized' = standardize_field_names(extracted_fields, doc_type)
    /\ pc' = "standardized"
    /\ UNCHANGED <<doc_type, extracted_fields, is_valid, missing, removed, text,
                   field_name, value, cleaned, now, scored>>
    /\ UNCHANGED adapterVars
    /\ UNCHANGED serverVars

Validate ==
    /\ pc = "standardized"
    /\ is_valid' = validate_required_fields(standardized, doc_type)[1]
    /\ missing' = validate_required_fields(standardized, doc_type)[2]
    /\ pc' = "validated"
    /\ UNCHANGED <<doc_type, extracted_fields, standardized, removed, text,
                   field_name, value, cleaned, now, scored>>
    /\ UNCHANGED adapterVars
    /\ UNCHANGED serverVars

Next == Standardize \/ Validate

Spec == Init /\ [][Next]_vars

-----------------------------------------------------------------------------
(* Properties of the canonicalization *)

Standardized == pc \in {"standardized", "validated"}

\* the raw result has field n (spelled exactly so) with a found value
RawFound(n) ==
    \E i \in 1..Len(extracted_fields) :
        extracted_fields[i][1] = n /\ extracted_fields[i][2] # NOT_FOUND

\* raw field names that are, or are aliased to, one of the canonical names in cs
NamesFor(cs) ==
    {extracted_fields[i][1] : i \in {j \in 1..Len(extracted_fields) :
        Lower(extracted_fields[j][1]) \in cs
        \/ AliasGet(Lower(extracted_fields[j][1])) \in cs}}

ExpiryKeys == {"expiration_date", "card_expires_date"}

\* C1: the raw field expiration_date, when it is the only expiry-like raw
\* field, is stored under card_expires_date for an EAD card and under
\* expiration_date for a driver's license or passport, and the other of the
\* two keys is not produced.
C1_ExpirationDateByType ==
    (Standardized /\ NormalizeDocType(doc_type) \in KnownTypes
        /\ NamesFor(ExpiryKeys) = {"expiration_date"})
    => LET key == IF NormalizeDocType(doc_type) = "ead_card"
                  THEN "card_expires_date" ELSE "expiration_date"
       IN /\ DictHas(standardized, key)
          /\ DictGet(standardized, key) = DictGet(extracted_fields, "expiration_date")
          /\ DictKeys(standardized) \cap ExpiryKeys = {key}

C1_Witness ==
    /\ pc = "standardized"
    /\ doc_type = "ead_card"
    /\ Len(extracted_fields) = 2
    /\ NamesFor(ExpiryKeys) = {"expiration_date"}
    /\ RawFound("expiration_date")
    /\ DictHas(standardized, "card_expires_date")
    /\ DictGet(standardized, "card_expires_date") = "01/01/2025"

\* text of v before its first space / after its first space
BeforeSpace(v) ==
    SubSeq(v, 1, (CHOOSE k \in 1..Len(v) :
                    Char(v, k) = " " /\ ~Contains(SubSeq(v, 1, k - 1), " ")) - 1)

AfterSpace(v) == SubSeq(v, Len(BeforeSpace(v)) + 2, Len(v))

NameParts == {"first_name", "last_name"}

C6_DocumentTypeLabel ==
    (Standardized /\ NormalizeDocType(doc_type) \in KnownTypes)
    => DictGet(standardized, "document_type") =
          IF DictHas(extracted_fields, "document_type")
             /\ DictGet(extracted_fields, "document_type") = "P"
          THEN "Passport"
          ELSE TypeLabel(NormalizeDocType(doc_type), "")

\* C7: a passport's issue_date that is absent or NOT_FOUND after the loop is
\* the found value supplied for date_of_issue when there is one, "Unknown"
\* otherwise; so it is never absent or NOT_FOUND.
C7_PassportIssueDate ==
    (Standardized /\ NormalizeDocType(doc_type) = "passport")
    => LET loop == StdLoop(<<>>, extracted_fields, "passport")
       IN /\ DictHas(standardized, "issue_date")
          /\ DictGet(standardized, "issue_date") # NOT_FOUND
          /\ (~DictHas(loop, "issue_date") \/ DictGet(loop, "issue_date") = NOT_FOUND)
             => DictGet(standardized, "issue_date") =
                   IF RawFound("date_of_issue")
                   THEN DictGet(extracted_fields, "date_of_issue")
                   ELSE "Unknown"

-----------------------------------------------------------------------------
(* The validation gate on canonical field sets, and the removal of a field *)

Absent == "<absent>"

\* what a canonical field set may hold for one required field
FieldChoices == {Absent, NOT_FOUND, "X", "Unknown"}

RECURSIVE SetToSeq(_)
SetToSeq(S) ==
    IF S = {} THEN <<>>
    ELSE LET x == CHOOSE y \in S : TRUE IN <<x>> \o SetToSeq(S \ {x})

RECURSIVE FieldsFrom(_, _)
\* the dict holding choice[f] for every f of order that is not absent
FieldsFrom(order, choice) ==
    IF order = <<>> THEN <<>>
    ELSE IF choice[Head(order)] = Absent THEN FieldsFrom(Tail(order), choice)
    ELSE << <<Head(order), choice[Head(order)]>> >> \o FieldsFrom(Tail(order), choice)

\* the required fields a field set for doc_type t is drawn over
FieldUniverse(t) ==
    IF ValidateDocType(t) = None THEN REQUIRED_FIELDS["passport"]
    ELSE REQUIRED_FIELDS[ValidateDocType(t)]

CanonicalSets(t) ==
    {<< <<"document_type", TypeLabel(NormalizeDocType(t), t)>> >>
        \o FieldsFrom(SetToSeq(FieldUniverse(t)), c) :
            c \in [FieldUniverse(t) -> FieldChoices]}

ValidateDocTypes == {"passport", "drivers_license", "ead_card", "Driver License", "unknown"}

InitValidate ==
    /\ pc = "standardized"
    /\ doc_type \in ValidateDocTypes
    /\ extracted_fields = <<>>
    /\ standardized \in CanonicalSets(doc_type)
    /\ is_valid = FALSE
    /\ missing = {}
    /\ removed = ""
    /\ text = ""
    /\ field_name = ""
    /\ value = ""
    /\ cleaned = <<>>
    /\ now = NoDate
    /\ scored = <<>>
    /\ NoRecognition
    /\ NoServer

\* one required field is deleted from a field set that validated as complete
RemoveField ==
    /\ pc = "validated"
    /\ is_valid
    /\ removed = ""
    /\ \E f \in FieldUniverse(doc_type) :
          /\ standardized' = DictDel(standardized, f)
          /\ removed' = f
    /\ pc' = "standardized"
    /\ UNCHANGED <<doc_type, extracted_fields, is_valid, missing, text,
                   field_name, value, cleaned, now, scored>>
    /\ UNCHANGED adapterVars
    /\ UNCHANGED serverVars

NextValidate == Validate \/ RemoveField

SpecValidate == InitValidate /\ [][NextValidate]_vars

\* the required fields of the known type t that fields lacks or holds as NOT_FOUND
LackedFields(fields, t) ==
    {f \in REQUIRED_FIELDS[t] : f \notin DictKeys(fields) \/ <<f, NOT_FOUND>> \in
        {fields[i] : i \in 1..Len(fields)}}

\* C3: for a known type the gate answers (True, []) exactly when no required
\* field is absent or NOT_FOUND, missing is exactly the set of such fields
\* ("Unknown" is a value like any other), and after one required field is
\* removed from a complete set the answer is False with that field missing.
C3_ValidationGate ==
    (pc = "validated" /\ NormalizeDocType(doc_type) \in KnownTypes)
    => /\ missing = LackedFields(standardized, NormalizeDocType(doc_type))
       /\ is_valid = (LackedFields(standardized, NormalizeDocType(doc_type)) = {})
       /\ removed # "" => (~is_valid /\ removed \in missing)

C3_Witness ==
    /\ pc = "validated"
    /\ doc_type = "passport"
    /\ removed = "issue_date"
    /\ ~is_valid
    /\ missing = {"issue_date"}

-----------------------------------------------------------------------------
(* Canonicalization of raw results that spell a required field every way *)

\* most fields of a raw result besides the aliases of the required field
MaxExtras == 1

\* the raw names FIELD_ALIASES maps to f, and f itself
AliasSet(f) == {n \in DOMAIN FIELD_ALIASES : FIELD_ALIASES[n] = f} \cup {f}

Rotate(seq, r) == SubSeq(seq, r + 1, Len(seq)) \o SubSeq(seq, 1, r)

\* the names of seq, each with a found value; the one at place mark differs
FoundFields(seq, mark) ==
    [i \in 1..Len(seq) |-> <<seq[i], IF i = mark THEN "07/04/2027" ELSE "01/01/2025">>]

ExtraPairs ==
    {<<"Expiration_Date", NOT_FOUND>>, <<"expiration_date", NOT_FOUND>>,
     <<"DOB", NOT_FOUND>>, <<"full_name", "JOHN SMITH">>, <<"document_type", "P">>,
     <<"nationality", "USA">>, <<"place_of_birth", NOT_FOUND>>}

\* ordered dicts of at most MaxExtras extra fields, none named in names
ExtraFields(names) ==
    UNION {{d \in [1..k -> ExtraPairs] :
                /\ \A i, j \in 1..k : i # j => d[i][1] # d[j][1]
                /\ \A i \in 1..k : d[i][1] \notin names} : k \in 0..MaxExtras}

\* raw results holding every alias of the required field f, in some rotation,
\* with extra fields before and after
AliasResults(f) ==
    {SubSeq(e, 1, k) \o FoundFields(Rotate(SetToSeq(AliasSet(f)), r), m)
        \o SubSeq(e, k + 1, Len(e)) :
            <<r, m>> \in (0..(Cardinality(AliasSet(f)) - 1)) \X (1..Cardinality(AliasSet(f))),
            <<e, k>> \in {<<x, y>> \in ExtraFields(AliasSet(f)) \X (0..MaxExtras) :
                            y <= Len(x)}}

InitAliases ==
    /\ pc = "raw"
    /\ doc_type \in KnownTypes
    /\ extracted_fields \in UNION {AliasResults(f) : f \in REQUIRED_FIELDS[doc_type]}
    /\ standardized = <<>>
    /\ is_valid = FALSE
    /\ missing = {}
    /\ removed = ""
    /\ text = ""
    /\ field_name = ""
    /\ value = ""
    /\ cleaned = <<>>
    /\ now = NoDate
    /\ scored = <<>>
    /\ NoRecognition
    /\ NoServer

NextAliases == Standardize \/ Validate

SpecAliases == InitAliases /\ [][NextAliases]_vars

\* the raw field names of the result that resolve to f under type t: the
\* spellings, in any letter case, of an alias of f, and expiration_date for
\* an EAD card's card_expires_date
RawAliasesOf(f, t) ==
    {extracted_fields[i][1] : i \in {j \in 1..Len(extracted_fields) :
        \/ (Lower(extracted_fields[j][1]) \in AliasSet(f)
               /\ Lower(extracted_fields[j][1]) # "expiration_date")
        \/ (Lower(extracted_fields[j][1]) = "expiration_date"
               /\ f = IF t = "ead_card" THEN "card_expires_date" ELSE "expiration_date")}}

-----------------------------------------------------------------------------
(* document_processor.py: DocumentProcessor._validate_field *)

DateSeparators == {"-", "/"}

\* the places <<i, l1, l2>> where (\d{1,2})[-/](\d{1,2})[-/](\d{2,4}) matches:
\* group 1 is s[i .. i+l1-1], group 2 follows one separator later
DateMatches(s) ==
    {m \in (1..Len(s)) \X {1, 2} \X {1, 2} :
        /\ DigitsAt(s, m[1], m[2])
        /\ Char(s, m[1] + m[2]) \in DateSeparators
        /\ DigitsAt(s, m[1] + m[2] + 1, m[3])
        /\ Char(s, m[1] + m[2] + m[3] + 1) \in DateSeparators
        /\ DigitsAt(s, m[1] + m[2] + m[3] + 2, 2)}

\* re.search: the leftmost match, each group as long as it can be
FirstDateMatch(s) ==
    CHOOSE m \in DateMatches(s) :
        \A o \in DateMatches(s) :
            \/ m[1] < o[1]
            \/ (m[1] = o[1] /\ m[2] > o[2])
            \/ (m[1] = o[1] /\ m[2] = o[2] /\ m[3] >= o[3])

\* length of group 3, \d{2,4}, starting at place y
YearLength(s, y) == CHOOSE k \in 2..4 : DigitsAt(s, y, k) /\ ~(k < 4 /\ DigitsAt(s, y, k + 1))

\* the century added to a year below 100
WithCentury(year) ==
    IF year < 100 THEN (IF year < 30 THEN year + 2000 ELSE year + 1900) ELSE year

\* mutant: day and month change places in the rendering
CleanDate_DayFirst(v) ==
    IF DateMatches(v) = {} THEN NOT_FOUND
    ELSE LET m == FirstDateMatch(v)
             y == m[1] + m[2] + m[3] + 2
         IN Pad2(StrToInt(SubSeq(v, m[1] + m[2] + 1, m[1] + m[2] + m[3]))) \o "/"
            \o Pad2(StrToInt(SubSeq(v, m[1], m[1] + m[2] - 1))) \o "/"
            \o IntToStr(WithCentury(StrToInt(SubSeq(v, y, y + YearLength(v, y) - 1))))

\* the branch for a field name containing 'date'
CleanDate(v) ==
    IF DateMatches(v) = {} THEN NOT_FOUND
    ELSE LET m == FirstDateMatch(v)
             y == m[1] + m[2] + m[3] + 2
         IN Pad2(StrToInt(SubSeq(v, m[1], m[1] + m[2] - 1))) \o "/"
            \o Pad2(StrToInt(SubSeq(v, m[1] + m[2] + 1, m[1] + m[2] + m[3]))) \o "/"
            \o IntToStr(WithCentury(StrToInt(SubSeq(v, y, y + YearLength(v, y) - 1))))

\* ^[A-Z\s]+$
NamePattern(v) == v # "" /\ AllIn(v, UpperLetters \cup Whitespace)

\* ^\d'?\d{1,2}"?$
HeightPattern(v) ==
    \E q1 \in {0, 1}, n \in {1, 2}, q2 \in {0, 1} :
        /\ Len(v) = 1 + q1 + n + q2
        /\ DigitsAt(v, 1, 1)
        /\ q1 = 1 => Char(v, 2) = "'"
        /\ DigitsAt(v, 2 + q1, n)
        /\ q2 = 1 => Char(v, Len(v)) = "\""

EyeCodes == {"BLU", "BRO", "GRN", "HAZ", "BLK"}

\* ^[A-Z]{1,5}\d{5,8}[A-Z]{1,2}$
LicensePattern(v) ==
    \E a \in 1..5, b \in 5..8, c \in 1..2 :
        /\ Len(v) = a + b + c
        /\ AllIn(SubSeq(v, 1, a), UpperLetters)
        /\ AllIn(SubSeq(v, a + 1, a + b), Digits)
        /\ AllIn(SubSeq(v, a + b + 1, a + b + c), UpperLetters)

\* DocumentProcessor._validate_field(field_name, value)
ValidateField(name, v) ==
    IF Contains(Lower(name), "date") THEN CleanDate(v)
    ELSE IF Contains(Lower(name), "name")
         THEN (IF NamePattern(v) THEN v ELSE NOT_FOUND)
    ELSE IF Lower(name) = "sex"
         THEN (IF Upper(v) \in {"M", "F"} THEN Upper(v) ELSE NOT_FOUND)
    ELSE IF Contains(Lower(name), "height")
         THEN (IF HeightPattern(v) THEN v ELSE NOT_FOUND)
    ELSE IF Contains(Lower(name), "eyes")
         THEN (IF Upper(v) \in EyeCodes THEN Upper(v) ELSE NOT_FOUND)
    ELSE IF Contains(Lower(name), "license") /\ Contains(Lower(name), "number")
         THEN (IF LicensePattern(v) THEN v ELSE NOT_FOUND)
    ELSE v

-----------------------------------------------------------------------------
(* Repeated cleaning of one field value *)

\* most successive _validate_field calls on one value
MaxPasses == 2

CleanMonths == {"1", "12", "123"}

CleanDays == {"5", "31", ""}

CleanYears == {"5", "05", "29", "30", "99", "123", "2024", "20245", "0005"}

\* values of the date-bearing fields
DateValues ==
    {"15JAN1985", "01FEB2020", "2024-01-15", "15 Jan 1985", "DOB 01/15/1990", NOT_FOUND}
    \cup {m \o s1 \o d \o s2 \o y :
            m \in CleanMonths, s1 \in {"/", "-", "."}, d \in CleanDays,
            s2 \in DateSeparators, y \in CleanYears}

\* field names of the templates, by branch of _validate_field
CleanValuesFor(name) ==
    IF Contains(name, "date") THEN DateValues
    ELSE IF Contains(name, "name") THEN {"SMITH", "Smith", "MARY JANE", "O'NEIL"}
    ELSE IF name = "sex" THEN {"M", "f", "X"}
    ELSE IF name = "height" THEN {"5'11\"", "511", "6-02"}
    ELSE IF name = "eyes" THEN {"BLU", "blu", "RED"}
    ELSE IF name = "license_number" THEN {"WDL1234567AB", "A1234567"}
    ELSE {"123 MAIN ST", "USA"}

CleanFieldNames ==
    {"date_of_birth", "expiration_date", "date_of_issue", "surname", "sex", "height",
     "eyes", "license_number", "address"}

InitDate ==
    /\ pc = "field"
    /\ field_name \in CleanFieldNames
    /\ value \in CleanValuesFor(field_name)
    /\ cleaned = <<>>
    /\ doc_type = ""
    /\ extracted_fields = <<>>
    /\ standardized = <<>>
    /\ is_valid = FALSE
    /\ missing = {}
    /\ removed = ""
    /\ text = ""
    /\ now = NoDate
    /\ scored = <<>>
    /\ NoRecognition
    /\ NoServer

\* _validate_field is applied to the value, then to what it returned
CleanField ==
    /\ pc = "field"
    /\ Len(cleaned) < MaxPasses
    /\ cleaned' = Append(cleaned,
          ValidateField(field_name, IF cleaned = <<>> THEN value ELSE cleaned[Len(cleaned)]))
    /\ UNCHANGED <<pc, doc_type, extracted_fields, standardized, is_valid, missing,
                   removed, text, field_name, value, now, scored>>
    /\ UNCHANGED adapterVars
    /\ UNCHANGED serverVars

NextDate == CleanField

SpecDate == InitDate /\ [][NextDate]_vars

DateBearing == Contains(Lower(field_name), "date")

\* the compact token DDMMMYYYY
CompactDate(v) ==
    /\ Len(v) = 9
    /\ DigitsAt(v, 1, 2)
    /\ AllIn(SubSeq(v, 3, 5), UpperLetters \cup LowerLetters)
    /\ DigitsAt(v, 6, 4)

\* "DD Mon YYYY" of a compact token
Rendered(v) ==
    SubSeq(v, 1, 2) \o " " \o UpperChar(Char(v, 3)) \o Lower(SubSeq(v, 4, 5))
        \o " " \o SubSeq(v, 6, 9)

\* C8: the value of a date-bearing field is re-rendered as "DD Mon YYYY" when
\* it is a compact token DDMMMYYYY and returned unchanged otherwise.
C8_DateNormalization ==
    (DateBearing /\ Len(cleaned) >= 1)
    => cleaned[1] = IF CompactDate(value) THEN Rendered(value) ELSE value

\* C9: cleaning the cleaned value of a date-bearing field changes nothing.
C9_DateIdempotent ==
    DateBearing => \A i \in 2..Len(cleaned) : cleaned[i] = cleaned[1]

C9_Witness ==
    /\ DateBearing
    /\ value = "1/5/29"
    /\ Len(cleaned) = 2
    /\ cleaned[1] = "01/05/2029"
    /\ cleaned[2] = "01/05/2029"

-----------------------------------------------------------------------------
(* ai.py: get_gpt_classification; classifier.py: DocumentClassifier *)

\* the rules dict, in its order
ClassificationRules ==
    << <<"drivers_license",
         {"driver license", "driver's license", "dl", "operator license", "drivers license"}>>,
       <<"passport", {"passport", "united states of america", "type p", "passport no"}>>,
       <<"ead", {"employment authorization", "ead", "authorization document", "card#"}>> >>

\* matches of rule r in the lower-cased text
RuleMatches(r, lowered) ==
    Cardinality({k \in ClassificationRules[r][2] : Contains(lowered, k)})

RuleSize(r) == Cardinality(ClassificationRules[r][2])

\* confidence a / b is greater than confidence c / d
Greater(a, b, c, d) == a * d > c * b

RECURSIVE BestRule(_, _, _)
\* the loop over rules.items(): best is <<best_doc_type, matches, keywords>>,
\* its confidence being matches / keywords
BestRule(r, lowered, best) ==
    IF r > Len(ClassificationRules) THEN best
    ELSE IF RuleMatches(r, lowered) > 0
            /\ Greater(RuleMatches(r, lowered), RuleSize(r), best[2], best[3])
         THEN BestRule(r + 1, lowered,
                       <<ClassificationRules[r][1], RuleMatches(r, lowered), RuleSize(r)>>)
         ELSE BestRule(r + 1, lowered, best)

\* get_gpt_classification(text)[0]; None when no keyword is in the text
get_gpt_classification(t) == BestRule(1, Lower(t), <<None, 0, 1>>)[1]

SUPPORTED_TYPES == {"passport", "drivers_license", "ead_card"}

\* keys of DocumentProcessor.field_templates
TemplateTypes == {"drivers_license", "passport", "ead"}

\* DocumentClassifier.classify_document after OCR: the type it returns, or the
\* exception it raises
classify_document(t) ==
    IF get_gpt_classification(t) = None THEN "AttributeError"
    ELSE IF Lower(get_gpt_classification(t)) \notin SUPPORTED_TYPES THEN "ValueError"
    ELSE Lower(get_gpt_classification(t))

-----------------------------------------------------------------------------
(* Classification of recognized text *)

\* most phrases of one text
MaxPhrases == 2

Phrases ==
    {"DRIVER LICENSE", "license", "Operator License", "PASSPORT", "Passport No",
     "United States of America", "EMPLOYMENT AUTHORIZATION", "ead", "authorization",
     "Card# 123", "WA DL", "hello"}

RECURSIVE TextsOf(_)
\* texts of exactly n phrases
TextsOf(n) ==
    IF n = 1 THEN Phrases
    ELSE {t \o " " \o ph : t \in TextsOf(n - 1), ph \in Phrases}

Texts == UNION {TextsOf(n) : n \in 1..MaxPhrases}

InitClassify ==
    /\ pc = "text"
    /\ text \in Texts
    /\ doc_type = ""
    /\ extracted_fields = <<>>
    /\ standardized = <<>>
    /\ is_valid = FALSE
    /\ missing = {}
    /\ removed = ""
    /\ field_name = ""
    /\ value = ""
    /\ cleaned = <<>>
    /\ now = NoDate
    /\ scored = <<>>
    /\ NoRecognition
    /\ NoServer

\* get_gpt_classification on the text
Classify ==
    /\ pc = "text"
    /\ doc_type' = get_gpt_classification(text)
    /\ pc' = "classified"
    /\ UNCHANGED <<extracted_fields, standardized, is_valid, missing, removed, text,
                   field_name, value, cleaned, now, scored>>
    /\ UNCHANGED adapterVars
    /\ UNCHANGED serverVars

\* DocumentClassifier.classify_document on an image with this text
ClassifyDocument ==
    /\ pc = "text"
    /\ doc_type' = classify_document(text)
    /\ pc' = IF classify_document(text) \in SUPPORTED_TYPES THEN "supported" ELSE "raised"
    /\ UNCHANGED <<extracted_fields, standardized, is_valid, missing, removed, text,
                   field_name, value, cleaned, now, scored>>
    /\ UNCHANGED adapterVars
    /\ UNCHANGED serverVars

NextClassify == Classify \/ ClassifyDocument

SpecClassify == InitClassify /\ [][NextClassify]_vars

DocumentTypeVariants == {"drivers_license", "passport", "ead_card", "unknown"}

\* the type the substring rules give for a text
SubstringType(t) ==
    IF Contains(Lower(t), "license") THEN "drivers_license"
    ELSE IF Contains(Lower(t), "passport") THEN "passport"
    ELSE IF Contains(Lower(t), "ead") \/ Contains(Lower(t), "authorization") THEN "ead_card"
    ELSE "unknown"

\* C10: classification ends in one of the four variants, the one the
\* case-insensitive substring rules give, and a known variant is accepted by
\* the supported-type list, the field templates and the required-field table.
C10_Classification ==
    pc = "classified"
    => /\ doc_type \in DocumentTypeVariants
       /\ doc_type = SubstringType(text)
       /\ doc_type # "unknown"
          => (/\ doc_type \in SUPPORTED_TYPES
              /\ doc_type \in TemplateTypes
              /\ ValidateDocType(doc_type) # None)

-----------------------------------------------------------------------------
(* extractor.py: FieldExtractor *)

\* a pattern closed by $ matches to the end of the value or to its final
\* newline: the value without that newline
Chomp(v) ==
    IF v # "" /\ Char(v, Len(v)) = "\n" THEN SubSeq(v, 1, Len(v) - 1) ELSE v

\* a run of lo..hi characters of the class cs
ClassRun(v, cs, lo, hi) == Len(v) \in lo..hi /\ AllIn(v, cs)

\* \d{2}[/-]\d{2}[/-]\d{4}
DatePattern(v) ==
    /\ Len(v) = 10
    /\ DigitsAt(v, 1, 2)
    /\ Char(v, 3) \in DateSeparators
    /\ DigitsAt(v, 4, 2)
    /\ Char(v, 6) \in DateSeparators
    /\ DigitsAt(v, 7, 4)

\* [A-Z]\d{2}
CategoryPattern(v) == Len(v) = 3 /\ Char(v, 1) \in UpperLetters /\ DigitsAt(v, 2, 2)

RuleFields ==
    {"passport_number", "license_number", "full_name", "date_of_birth", "expiration_date",
     "issue_date", "address", "nationality", "class", "uscis_number", "category",
     "card_number"}

\* FIELD_VALIDATION_RULES[field]["pattern"] matched against the value
PatternMatch(field, v) ==
    LET alnum == UpperLetters \cup Digits
        letters == UpperLetters \cup LowerLetters
        PassportNumber(x) == ClassRun(x, alnum, 6, 9)
        LicenseNumber(x) == ClassRun(x, alnum \cup {"-"}, 1, 20)
        FullName(x) == ClassRun(x, letters \cup Whitespace \cup {"-", "'", "."}, 2, 50)
        Address(x) ==
            ClassRun(x, letters \cup Digits \cup Whitespace \cup {"-", ".", ",", "#"}, 5, 100)
        Nationality(x) == ClassRun(x, UpperLetters, 2, 3)
        Class(x) == ClassRun(x, alnum \cup {"-"}, 1, 5)
        UscisNumber(x) == ClassRun(x, alnum, 8, 9)
        CardNumber(x) == ClassRun(x, alnum, 13, 13)
    IN  CASE field = "passport_number" -> PassportNumber(v) \/ PassportNumber(Chomp(v))
          [] field = "license_number" -> LicenseNumber(v) \/ LicenseNumber(Chomp(v))
          [] field = "full_name" -> FullName(v) \/ FullName(Chomp(v))
          [] field \in {"date_of_birth", "expiration_date", "issue_date"} ->
                DatePattern(v) \/ DatePattern(Chomp(v))
          [] field = "address" -> Address(v) \/ Address(Chomp(v))
          [] field = "nationality" -> Nationality(v) \/ Nationality(Chomp(v))
          [] field = "class" -> Class(v) \/ Class(Chomp(v))
          [] field = "uscis_number" -> UscisNumber(v) \/ UscisNumber(Chomp(v))
          [] field = "category" -> CategoryPattern(v) \/ CategoryPattern(Chomp(v))
          [] field = "card_number" -> CardNumber(v) \/ CardNumber(Chomp(v))

\* FIELD_VALIDATION_RULES[field]["description"]
RuleDescription ==
    ("passport_number" :> "6-9 alphanumeric characters")
    @@ ("license_number" :> "Alphanumeric with optional hyphens")
    @@ ("full_name" :> "2-50 characters, letters and basic punctuation")
    @@ ("date_of_birth" :> "MM/DD/YYYY or MM-DD-YYYY format")
    @@ ("expiration_date" :> "MM/DD/YYYY or MM-DD-YYYY format")
    @@ ("issue_date" :> "MM/DD/YYYY or MM-DD-YYYY format")
    @@ ("address" :> "5-100 characters, alphanumeric with basic punctuation")
    @@ ("nationality" :> "2-3 letter country code")
    @@ ("class" :> "1-5 characters, letters and numbers")
    @@ ("uscis_number" :> "8-9 alphanumeric characters")
    @@ ("category" :> "One letter followed by two digits")
    @@ ("card_number" :> "13 alphanumeric characters")

\* position of the first c in s at or after from, 0 when there is none
IndexFrom(s, c, from) ==
    IF \E i \in from..Len(s) : Char(s, i) = c
    THEN CHOOSE i \in from..Len(s) :
            Char(s, i) = c /\ \A j \in from..(i - 1) : Char(s, j) # c
    ELSE 0

\* strptime's %m: 1[0-2]|0[1-9]|[1-9]
MonthToken(a) ==
    \/ Len(a) = 2 /\ AllIn(a, Digits) /\ StrToInt(a) \in 1..12
    \/ Len(a) = 1 /\ a \in Digits \ {"0"}

\* strptime's %d: 3[01]|[12]\d|0[1-9]|[1-9]| [1-9]
DayToken(b) ==
    \/ Len(b) = 2 /\ AllIn(b, Digits) /\ StrToInt(b) \in 1..31
    \/ Len(b) = 1 /\ b \in Digits \ {"0"}
    \/ Len(b) = 2 /\ Char(b, 1) = " " /\ Char(b, 2) \in Digits \ {"0"}

IsLeap(y) == y % 4 = 0 /\ (y % 100 # 0 \/ y % 400 = 0)

DaysIn(m, y) ==
    IF m = 2 THEN (IF IsLeap(y) THEN 29 ELSE 28)
    ELSE IF m \in {4, 6, 9, 11} THEN 30
    ELSE 31

\* datetime.strptime(s, "%m<sep>%d<sep>%Y") as <<year, month, day>>; NoDate
\* when it raises ValueError
Strptime(s, sep) ==
    LET i == IndexFrom(s, sep, 1)
        j == IF i = 0 THEN 0 ELSE IndexFrom(s, sep, i + 1)
        a == SubSeq(s, 1, i - 1)
        b == SubSeq(s, i + 1, j - 1)
        c == SubSeq(s, j + 1, Len(s))
    IN  IF j = 0 THEN NoDate
        ELSE IF ~(MonthToken(a) /\ DayToken(b) /\ Len(c) = 4 /\ AllIn(c, Digits)) THEN NoDate
        ELSE IF StrToInt(c) < 1 \/ StrToInt(LStrip(b)) > DaysIn(StrToInt(a), StrToInt(c))
             THEN NoDate
        ELSE <<StrToInt(c), StrToInt(a), StrToInt(LStrip(b))>>

\* date a is not later than date b
DateLE(a, b) ==
    \/ a[1] < b[1]
    \/ a[1] = b[1] /\ a[2] < b[2]
    \/ a[1] = b[1] /\ a[2] = b[2] /\ a[3] <= b[3]

\* hundred_years_ago <= date_obj <= now, the clock reading later than
\* midnight; now.replace raises ValueError on a 29 February whose year a
\* century back is not a leap year, and the loop then ends in False
InRange(d, today) ==
    /\ today[3] <= DaysIn(today[2], today[1] - 100)
    /\ DateLE(<<today[1] - 100, today[2], today[3]>>, d)
    /\ d # <<today[1] - 100, today[2], today[3]>>
    /\ DateLE(d, today)

\* FieldExtractor._validate_date
ValidateDate(s, today) ==
    \/ Strptime(s, "/") # NoDate /\ InRange(Strptime(s, "/"), today)
    \/ Strptime(s, "-") # NoDate /\ InRange(Strptime(s, "-"), today)

RECURSIVE WordCount(_)
\* len(value.split())
WordCount(s) ==
    IF LStrip(s) = "" THEN 0
    ELSE LET t == LStrip(s)
             k == IF \E i \in 1..Len(t) : Char(t, i) \in Whitespace
                  THEN CHOOSE i \in 1..Len(t) :
                          Char(t, i) \in Whitespace
                          /\ \A j \in 1..(i - 1) : Char(t, j) \notin Whitespace
                  ELSE Len(t) + 1
         IN  1 + WordCount(SubSeq(t, k, Len(t)))

Min(a, b) == IF a <= b THEN a ELSE b

DateFields == {"date_of_birth", "expiration_date", "issue_date"}

\* FieldExtractor._validate_field_value as <<is_valid, confidence>>, the
\* confidence in hundredths
ValidateFieldValue(field, v, today) ==
    IF v = "" \/ Strip(v) = "" THEN <<FALSE, 0>>
    ELSE IF field \notin RuleFields THEN <<TRUE, 50>>
    ELSE IF field \in DateFields /\ ~ValidateDate(v, today) THEN <<FALSE, 0>>
    ELSE IF ~PatternMatch(field, v) THEN <<FALSE, 0>>
    ELSE IF field = "full_name" THEN <<TRUE, Min(70 + Min(WordCount(v) * 10, 30), 100)>>
    ELSE IF field \in DateFields THEN <<TRUE, 100>>
    ELSE IF field \in {"passport_number", "license_number", "uscis_number"}
         THEN <<TRUE, IF Len(v) = (IF field = "passport_number" THEN 9 ELSE 8)
                      THEN 100 ELSE 85>>
    ELSE <<TRUE, 90>>

\* the error_message of extract_fields
ErrorMessage(field, valid) ==
    IF valid THEN None
    ELSE "Invalid format. Expected: "
         \o (IF field \in RuleFields THEN RuleDescription[field] ELSE "valid value")

\* the ExtractedFieldBase objects extract_fields builds from a field dict
ScoredFields(fields, today) ==
    [i \in 1..Len(fields) |->
        LET r == ValidateFieldValue(fields[i][1], fields[i][2], today)
        IN  [field_name |-> fields[i][1],
             field_value |-> fields[i][2],
             confidence_score |-> r[2],
             needs_correction |-> ~r[1],
             error_message |-> ErrorMessage(fields[i][1], r[1])]]

-----------------------------------------------------------------------------
(* A driver's license from recognition result to scored fields *)

LicenseNames ==
    <<"document_type", "license_number", "first_name", "last_name", "date_of_birth",
      "issue_date", "expiration_date">>

LicenseValues(name) ==
    CASE name = "document_type" -> {"DRIVER LICENSE", "LICENSE"}
      [] name = "license_number" -> {"A1234567", "WDL-12345", "A123 4567"}
      [] name = "first_name" -> {"JOHN"}
      [] name = "last_name" -> {"SMITH", NOT_FOUND}
      [] name = "date_of_birth" -> {"01/15/1990", "02/30/1990"}
      [] name = "issue_date" -> {"01/01/2020", "1-1-2020"}
      [] name = "expiration_date" -> {"01/15/2025", "01/15/2030", "2025-01-15"}

RECURSIVE LicenseResultsTo(_)
\* the results made of the first n names, in their order
LicenseResultsTo(n) ==
    IF n = 0 THEN {<<>>}
    ELSE {Append(r, <<LicenseNames[n], v>>) :
            r \in LicenseResultsTo(n - 1), v \in LicenseValues(LicenseNames[n])}

LicenseResults == LicenseResultsTo(Len(LicenseNames))

\* readings of datetime.now(), as <<year, month, day>>
Clocks == {<<2024, 2, 29>>, <<2024, 6, 1>>, <<2026, 11, 2>>}

InitLicense ==
    /\ pc = "result"
    /\ doc_type = ""
    /\ extracted_fields \in LicenseResults
    /\ standardized = <<>>
    /\ is_valid = FALSE
    /\ missing = {}
    /\ removed = ""
    /\ text = ""
    /\ field_name = ""
    /\ value = ""
    /\ cleaned = <<>>
    /\ now \in Clocks
    /\ scored = <<>>
    /\ NoRecognition
    /\ NoServer

\* get_gpt_classification on the type the recognition result names, then the
\* template lookup of process_image
ClassifyResult ==
    /\ pc = "result"
    /\ doc_type' = get_gpt_classification(DictGet(extracted_fields, "document_type"))
    /\ pc' = IF get_gpt_classification(DictGet(extracted_fields, "document_type"))
                \in TemplateTypes
             THEN "raw" ELSE "raised"
    /\ UNCHANGED <<extracted_fields, standardized, is_valid, missing, removed, text,
                   field_name, value, cleaned, now, scored>>
    /\ UNCHANGED adapterVars
    /\ UNCHANGED serverVars

\* the scoring loop of extract_fields over the canonical fields
Score ==
    /\ pc = "validated"
    /\ scored' = ScoredFields(standardized, now)
    /\ pc' = "scored"
    /\ UNCHANGED <<doc_type, extracted_fields, standardized, is_valid, missing, removed,
                   text, field_name, value, cleaned, now>>
    /\ UNCHANGED adapterVars
    /\ UNCHANGED serverVars

NextLicense == ClassifyResult \/ Standardize \/ Validate \/ Score

SpecLicense == InitLicense /\ [][NextLicense]_vars

LicenseFields ==
    {"license_number", "first_name", "last_name", "date_of_birth", "issue_date",
     "expiration_date"}

\* the recognition result names a driver's license and carries a found value
\* for each of the six fields
LicenseResult ==
    /\ DictHas(extracted_fields, "document_type")
    /\ DictGet(extracted_fields, "document_type") = "DRIVER LICENSE"
    /\ \A f \in LicenseFields :
          DictHas(extracted_fields, f) /\ DictGet(extracted_fields, f) # NOT_FOUND

\* C4: a result naming "DRIVER LICENSE" with found values for the six license
\* fields is classified drivers_license, validates complete with nothing
\* missing, and every required field is scored needs_correction = FALSE.
C4_LicenseEndToEnd ==
    LicenseResult
    => /\ pc # "result" => doc_type = "drivers_license" /\ pc # "raised"
       /\ pc \in {"validated", "scored"} => is_valid /\ missing = {}
       /\ pc = "scored"
          => \A f \in REQUIRED_FIELDS["drivers_license"] :
                \E i \in 1..Len(scored) :
                    scored[i].field_name = f /\ scored[i].needs_correction = FALSE

\* C19: a field is scored 0.8 when its value is found and 0.0 when it is
\* NOT_FOUND; needs_correction is true exactly when the value is NOT_FOUND and
\* the field is required for the type; the error message is "Field is
\* required" exactly when needs_correction is true and null otherwise.
\* Confidence is in hundredths.
C19_PerFieldScoring ==
    (pc = "scored" /\ doc_type = "drivers_license")
    => \A i \in 1..Len(scored) :
          LET absent == scored[i].field_value = NOT_FOUND
              required == scored[i].field_name \in REQUIRED_FIELDS["drivers_license"]
          IN  /\ scored[i].confidence_score = (IF absent THEN 0 ELSE 80)
              /\ scored[i].needs_correction = (absent /\ required)
              /\ scored[i].error_message
                    = (IF scored[i].needs_correction THEN "Field is required" ELSE None)

-----------------------------------------------------------------------------
(* ai.py: check_image_quality *)

\* an image file: whether Image.open succeeds, img.size, the entries 0 and
\* 255 of img.histogram() (of the grayscale image when the mode is RGB), and
\* os.path.getsize
ImageFile(opens, width, height, hist0, hist255, size) ==
    [opens |-> opens, width |-> width, height |-> height,
     hist0 |-> hist0, hist255 |-> hist255, size |-> size]

MinWidth == 500

MinHeight == 300

MegaByte == 1024 * 1024

\* int(total_pixels * 0.9)
BlankThreshold(img) == (img.width * img.height * 9) \div 10

\* mutant: an image of exactly the minimum size is turned away
TooSmall_Inclusive(img) == img.width <= MinWidth \/ img.height <= MinHeight

TooSmall(img) == img.width < MinWidth \/ img.height < MinHeight

\* check_image_quality(image_path) as <<is_valid, error_message>>
check_image_quality(img) ==
    IF ~img.opens THEN <<FALSE, "Invalid image file: cannot identify image file">>
    ELSE IF TooSmall(img)
    THEN <<FALSE, "Image resolution too low (" \o IntToStr(img.width) \o "x"
                  \o IntToStr(img.height)
                  \o "). Minimum required is 500x300 for accurate processing.">>
    ELSE IF img.hist0 > BlankThreshold(img) \/ img.hist255 > BlankThreshold(img)
    THEN <<FALSE, "Image appears to be blank or too dark. Please provide a clearer scan.">>
    ELSE IF img.size > 10 * MegaByte
    THEN <<FALSE, "File size too large. Please compress the image.">>
    ELSE <<TRUE, None>>

-----------------------------------------------------------------------------
(* The quality check on image files *)

Widths == {400, 499, 500, 800}

Heights == {200, 299, 300, 600}

FileSizes == {2048, 10 * MegaByte, 10 * MegaByte + 1, 20 * MegaByte + 1}

\* numbers of pixels an image of w x h may hold of one extreme value
ExtremeCounts(w, h) ==
    {0, (w * h * 9) \div 10, (w * h * 9) \div 10 + 1, w * h}

\* the pairs <<hist0, hist255>> an image of w x h may show
ExtremePairs(w, h) ==
    {c \in ExtremeCounts(w, h) \X ExtremeCounts(w, h) : c[1] + c[2] <= w * h}

ImageFiles ==
    UNION {{ImageFile(o, w, h, c[1], c[2], sz) :
                o \in BOOLEAN, sz \in FileSizes, c \in ExtremePairs(w, h)} :
           <<w, h>> \in Widths \X Heights}

InitQuality ==
    /\ pc = "image"
    /\ doc_type = ""
    /\ extracted_fields = <<>>
    /\ standardized = <<>>
    /\ is_valid = FALSE
    /\ missing = {}
    /\ removed = ""
    /\ text = ""
    /\ field_name = ""
    /\ value = ""
    /\ cleaned = <<>>
    /\ now = NoDate
    /\ scored = <<>>
    /\ image \in ImageFiles
    /\ requested = <<>>
    /\ response = <<>>
    /\ calls = 0
    /\ outcome = <<>>
    /\ NoServer

pipelineVars ==
    <<doc_type, extracted_fields, standardized, is_valid, missing, removed, text,
      field_name, value, cleaned, now, scored>>

\* check_image_quality on the file
CheckQuality ==
    /\ pc = "image"
    /\ outcome' = check_image_quality(image)
    /\ pc' = "checked"
    /\ UNCHANGED pipelineVars
    /\ UNCHANGED <<image, requested, response, calls>>
    /\ UNCHANGED serverVars

NextQuality == CheckQuality

SpecQuality == InitQuality /\ [][NextQuality]_vars

\* C16: the check answers (True, None) exactly when the image opens, is at
\* least 500 wide and 300 high, holds neither more than 90% pixels of value 0
\* nor more than 90% of value 255, and its file is at most 10 MB; every other
\* answer is False with a non-empty reason.
C16_QualityGate ==
    pc = "checked"
    => /\ outcome[1] =
            (/\ image.opens
             /\ image.width >= 500 /\ image.height >= 300
             /\ image.hist0 * 10 <= image.width * image.height * 9
             /\ image.hist255 * 10 <= image.width * image.height * 9
             /\ image.size <= 10 * 1024 * 1024)
       /\ outcome[1] => outcome[2] = None
       /\ ~outcome[1] => (outcome[2] # None /\ outcome[2] # "")

C16_Witness ==
    /\ pc = "checked"
    /\ image.width = 500 /\ image.height = 300
    /\ image.hist255 = 135000
    /\ image.size = 10 * 1024 * 1024
    /\ outcome = <<TRUE, None>>

-----------------------------------------------------------------------------
(* ai.py: validate_gpt_response *)

\* A value of parsed JSON is <<type, text>>: a string with its text, or
\* null, a number, a boolean, a list or an object with its JSON text.
JsonStr(v) == <<"str", v>>

\* Python truth of a parsed JSON value
Truthy(j) ==
    CASE j[1] = "str" -> j[2] # ""
      [] j[1] = "null" -> FALSE
      [] j[1] = "num" -> j[2] # "0"
      [] j[1] = "bool" -> j[2] = "true"
      [] j[1] = "list" -> j[2] # "[]"
      [] j[1] = "dict" -> j[2] # "{}"

\* the value has no strip(): the loop over the items raises AttributeError
StripRaises(j) == Truthy(j) /\ j[1] # "str"

\* mutant: the fields the answer lacks are not added
Backfilled_Skipped(d, fields) == d

RECURSIVE Backfilled(_, _)
\* extracted_fields.update({field: "NOT_FOUND" for field in missing_fields})
Backfilled(d, fields) ==
    IF fields = <<>> THEN d
    ELSE IF DictHas(d, Head(fields)) THEN Backfilled(d, Tail(fields))
    ELSE Backfilled(Append(d, <<Head(fields), JsonStr(NOT_FOUND)>>), Tail(fields))

\* mutant: a value is kept as the service wrote it
FormatValue_Raw(j) ==
    IF ~Truthy(j) \/ Strip(j[2]) = "" THEN NOT_FOUND ELSE j[2]

\* the loop body over the items, for a value that does not raise
FormatValue(j) ==
    IF ~Truthy(j) \/ Strip(j[2]) = "" THEN NOT_FOUND ELSE Upper(Strip(j[2]))

Formatted(d) == [i \in 1..Len(d) |-> <<d[i][1], FormatValue(d[i][2])>>]

\* What json.loads makes of the response text, directly or from the text
\* between the first { and the last }:
\*   <<"none">>      the content is None (json.loads raises TypeError)
\*   <<"prose">>     no JSON and no {...} in the text
\*   <<"broken">>    a {...} that does not parse
\*   <<"value", j>>  JSON that is no object (a list, a string, a number)
\*   <<"object", d>> an object, d its members in order
\* validate_gpt_response as <<is_valid, error_message, extracted_fields>>
validate_gpt_response(parsed, fields) ==
    CASE parsed[1] = "none" ->
            <<FALSE, "Error parsing GPT response: the JSON object must be str", None>>
      [] parsed[1] = "prose" -> <<FALSE, "No valid JSON found in GPT response", None>>
      [] parsed[1] = "broken" -> <<FALSE, "Invalid JSON format: Expecting value", None>>
      [] parsed[1] = "value" ->
            <<FALSE, "Error parsing GPT response: object has no attribute", None>>
      [] parsed[1] = "object" ->
            LET filled == Backfilled(parsed[2], fields)
            IN  IF \E i \in 1..Len(filled) : StripRaises(filled[i][2])
                THEN <<FALSE, "Error parsing GPT response: object has no attribute 'strip'",
                       None>>
                ELSE IF \A i \in 1..Len(filled) : Formatted(filled)[i][2] = NOT_FOUND
                THEN <<FALSE, "Critical fields missing - manual review required", None>>
                ELSE <<TRUE, None, Formatted(filled)>>

-----------------------------------------------------------------------------
(* ai.py: get_gpt_extraction *)

\* {field: "NOT_FOUND" for field in fields}
AllNotFound(fields) ==
    Backfilled(<<>>, fields)

\* the dict of plain strings from one of JSON strings
Plain(d) == [i \in 1..Len(d) |-> <<d[i][1], d[i][2][2]>>]

doc_number_aliases ==
    <<"document_number", "passport_number", "passport no", "document no", "passportno",
      "documentno", "id_number", "id no", "idno">>

RECURSIVE FirstDocNumber(_, _)
\* the value of the first alias the dict holds with a found value, or None
FirstDocNumber(d, aliases) ==
    IF aliases = <<>> THEN None
    ELSE IF DictHas(d, Head(aliases)) /\ DictGet(d, Head(aliases)) \notin {"", NOT_FOUND}
    THEN DictGet(d, Head(aliases))
    ELSE FirstDocNumber(d, Tail(aliases))

WithDocumentNumber(d) ==
    DictSet(d, "document_number",
            IF FirstDocNumber(d, doc_number_aliases) = None THEN NOT_FOUND
            ELSE FirstDocNumber(d, doc_number_aliases))

\* the recognition service is called: the image passed the quality check and
\* was converted, saved and encoded without an exception
ServiceCalled(img, prepared) == check_image_quality(img)[1] /\ prepared

\* get_gpt_extraction(image_path, doc_type, fields): img is the file under
\* image_path, prepared tells whether its conversion, JPEG copy and encoding
\* succeed, answer is <<"error">> when the API call raises, <<"empty">> when
\* the answer has no choice, and <<"content", parsed>> otherwise
get_gpt_extraction(img, prepared, fields, answer) ==
    IF ~ServiceCalled(img, prepared) THEN Plain(AllNotFound(fields))
    ELSE IF answer[1] # "content" THEN Plain(AllNotFound(fields))
    ELSE IF ~validate_gpt_response(answer[2], fields)[1] THEN Plain(AllNotFound(fields))
    ELSE WithDocumentNumber(validate_gpt_response(answer[2], fields)[3])

-----------------------------------------------------------------------------
(* The recognition adapter on the answers of the service *)

\* most members of an object the service answers with
MaxMembers == 2

MemberNames == {"document_type", "passport_number", "full_name", "passport no"}

MemberValues ==
    {JsonStr("Passport"), JsonStr(" john smith "), JsonStr("  "), JsonStr(""),
     JsonStr(NOT_FOUND), <<"null", "null">>, <<"num", "123456789">>, <<"list", "[1]">>}

RECURSIVE ObjectsOf(_)
\* objects of exactly n members with distinct names
ObjectsOf(n) ==
    IF n = 0 THEN {<<>>}
    ELSE UNION {{Append(d, <<k, v>>) : k \in MemberNames \ DictKeys(d), v \in MemberValues} :
                d \in ObjectsOf(n - 1)}

Answers ==
    {<<"error">>, <<"empty">>, <<"content", <<"none">>>>, <<"content", <<"prose">>>>,
     <<"content", <<"broken">>>>, <<"content", <<"value", <<"list", "[1]">>>>>>}
    \cup {<<"content", <<"object", d>>>> : d \in UNION {ObjectsOf(n) : n \in 0..MaxMembers}}

RequestLists ==
    {<<"document_type", "passport_number", "full_name">>, <<"document_type">>,
     <<"full_name", "document_number">>}

AdapterImages ==
    {ImageFile(TRUE, 800, 600, 0, 0, 2048), ImageFile(FALSE, 800, 600, 0, 0, 2048),
     ImageFile(TRUE, 400, 200, 0, 0, 2048)}

InitExtract ==
    /\ pc = "request"
    /\ doc_type = "passport"
    /\ extracted_fields = <<>>
    /\ standardized = <<>>
    /\ is_valid = FALSE
    /\ missing = {}
    /\ removed = ""
    /\ text = ""
    /\ field_name = ""
    /\ value = ""
    /\ cleaned = <<>>
    /\ now = NoDate
    /\ scored = <<>>
    /\ image \in AdapterImages
    /\ requested \in RequestLists
    /\ response \in Answers
    /\ calls = 0
    /\ outcome = <<>>
    /\ NoServer

\* get_gpt_extraction(image_path, doc_type, fields)
Extract ==
    /\ pc = "request"
    /\ \E prepared \in BOOLEAN :
          /\ extracted_fields' = get_gpt_extraction(image, prepared, requested, response)
          /\ calls' = IF ServiceCalled(image, prepared) THEN calls + 1 ELSE calls
          /\ outcome' = <<"returned", ServiceCalled(image, prepared)>>
    /\ pc' = "extracted"
    /\ UNCHANGED <<doc_type, standardized, is_valid, missing, removed, text, field_name,
                   value, cleaned, now, scored, image, requested, response>>
    /\ UNCHANGED serverVars

NextExtract == Extract

SpecExtract == InitExtract /\ [][NextExtract]_vars

\* the service answered with an object
ObjectAnswer == response[1] = "content" /\ response[2][1] = "object"

\* the members of that object
Members == response[2][2]

\* the service left the field out, or left it empty or blank
OmittedOrEmpty(f) ==
    \/ ~ObjectAnswer
    \/ ~DictHas(Members, f)
    \/ ~Truthy(DictGet(Members, f))
    \/ DictGet(Members, f)[1] = "str" /\ Strip(DictGet(Members, f)[2]) = ""

C18_PartialResult ==
    (/\ pc = "extracted"
     /\ calls = 1
     /\ ObjectAnswer)
    => \A i \in 1..Len(requested) :
          ~OmittedOrEmpty(requested[i]) /\ DictGet(Members, requested[i])[1] = "str"
          => DictGet(extracted_fields, requested[i])
                = Upper(Strip(DictGet(Members, requested[i])[2]))

-----------------------------------------------------------------------------
(* DocumentProcessor.process_image *)

\* DocumentProcessor.field_templates
field_templates ==
    [t \in TemplateTypes |->
        CASE t = "drivers_license" ->
                 <<"license_number", "name", "date_of_birth", "expiration_date", "address",
                   "sex", "height", "eyes", "restrictions", "endorsements">>
          [] t = "passport" ->
                 <<"passport_number", "surname", "given_names", "nationality",
                   "date_of_birth", "place_of_birth", "date_of_issue", "date_of_expiry">>
          [] t = "ead" ->
                 <<"card_number", "name", "date_of_birth", "category", "valid_from",
                   "expires", "alien_number">>]

\* self.field_templates.get(doc_type, [])
Template(t) == IF t \in DOMAIN field_templates THEN field_templates[t] ELSE <<>>

\* an exception that leaves process_image under the name of its own type
Raised_AsIs(message) == <<"raised", message, "Exception">>

\* the exception process_image re-raises as ValueError(str(e))
Raised(message) == <<"raised", message, "ValueError">>

\* what process_image raises instead when the conversion raised
ConversionFailed ==
    Raised("Failed to process document. Please ensure it's a valid PDF or image file.")

NoReadableText == Raised("Failed to extract readable text from the document")

NotEnoughText == Raised("Not enough text was extracted. Please provide a clearer image.")

Unsupported(t) == Raised("Unsupported document type: " \o (IF t = None THEN "None" ELSE t))

MostFieldsMissing ==
    Raised("Could not extract most fields. Please provide a clearer image.")

\* the file opens with Image.open or converts with _convert_pdf_to_image
Opens_Always(contents) == TRUE

Opens(contents) == contents.kind \in {"image", "pdf"}

\* least length of the stripped text
MinTextLength == 50

\* not_found_count
NotFoundCount(d) == Cardinality({i \in 1..Len(d) : d[i][2] = NOT_FOUND})

\* not_found_count > len(fields) * 0.7
TooManyNotFound_Lenient(d, fields) == NotFoundCount(d) > Len(fields)

TooManyNotFound(d, fields) == NotFoundCount(d) * 10 > Len(fields) * 7

\* the list process_image builds from the template and the recognition result
FieldList(d, fields) ==
    [i \in 1..Len(fields) |->
        LET name == IF Len(fields[i]) >= 2 /\ SubSeq(fields[i], 1, 2) = "- "
                    THEN SubSeq(fields[i], 3, Len(fields[i]))
                    ELSE fields[i]
            found == IF DictHas(d, fields[i]) THEN DictGet(d, fields[i]) ELSE NOT_FOUND
        IN  [field_name |-> name,
             field_value |-> IF found # NOT_FOUND THEN ValidateField(name, found)
                             ELSE found,
             corrected |-> FALSE]]

\* what the three OCR attempts leave in best_text; "" when none of them
\* produced a text of positive confidence
OcrTexts ==
    {"", "WA DL",
     "  PASSPORT                                            ",
     "WASHINGTON DRIVER LICENSE DL A1234567 JOHN SMITH DOB 01/15/1985",
     "PASSPORT UNITED STATES OF AMERICA SMITH JOHN 123456789 USA 15 JAN 1985",
     "EMPLOYMENT AUTHORIZATION CARD# EAD1234567890 MARIA GARCIA C09",
     "MEMBERSHIP OF THE CITY LIBRARY JOHN SMITH NUMBER 0012345"}

UploadedFiles == [kind : {"image", "pdf", "other"}, ocr : OcrTexts]

LicenseAnswer ==
    << <<"license_number", JsonStr("A1234567")>>, <<"name", JsonStr("John Smith")>>,
       <<"date_of_birth", JsonStr("01/15/1985")>>, <<"sex", JsonStr("m")>> >>

PassportAnswer ==
    << <<"passport_number", JsonStr("123456789")>>, <<"surname", JsonStr("SMITH")>>,
       <<"given_names", JsonStr("JOHN")>>, <<"nationality", JsonStr("USA")>> >>

EadAnswer ==
    << <<"card_number", JsonStr("EAD1234567890")>>, <<"name", JsonStr("MARIA GARCIA")>>,
       <<"category", JsonStr("C09")>> >>

ProcessAnswers ==
    {<<"error">>, <<"empty">>, <<"content", <<"prose">>>>,
     <<"content", <<"object", <<>>>>>>,
     <<"content", <<"object", << <<"name", JsonStr("JOHN SMITH")>> >>>>>>,
     <<"content", <<"object", LicenseAnswer>>>>,
     <<"content", <<"object", PassportAnswer>>>>,
     <<"content", <<"object", EadAnswer>>>>}

InitProcess ==
    /\ pc = "upload"
    /\ doc_type = ""
    /\ extracted_fields = <<>>
    /\ standardized = <<>>
    /\ is_valid = FALSE
    /\ missing = {}
    /\ removed = ""
    /\ text = ""
    /\ field_name = ""
    /\ value = ""
    /\ cleaned = <<>>
    /\ now = NoDate
    /\ scored = <<>>
    /\ image \in AdapterImages
    /\ requested = <<>>
    /\ response \in ProcessAnswers
    /\ calls = 0
    /\ outcome = <<>>
    /\ upload \in UploadedFiles
    /\ requests = <<>>
    /\ files = <<>>
    /\ NoDb

processFrame ==
    <<standardized, is_valid, missing, removed, field_name, value, cleaned, now, scored,
      image, response, upload, requests, files, documents, field_rows, reply>>

\* process_image, opening the file as an image or as a PDF
OpenUpload ==
    /\ pc = "upload"
    /\ IF Opens(upload)
       THEN pc' = "opened" /\ UNCHANGED outcome
       ELSE pc' = "failed" /\ outcome' = ConversionFailed
    /\ UNCHANGED <<doc_type, extracted_fields, text, requested, calls>>
    /\ UNCHANGED processFrame

\* process_image, the OCR attempts and the checks of their text
ReadText ==
    /\ pc = "opened"
    /\ text' = upload.ocr
    /\ IF upload.ocr = ""
       THEN pc' = "failed" /\ outcome' = NoReadableText
       ELSE IF Len(Strip(upload.ocr)) < MinTextLength
       THEN pc' = "failed" /\ outcome' = NotEnoughText
       ELSE pc' = "read" /\ UNCHANGED outcome
    /\ UNCHANGED <<doc_type, extracted_fields, requested, calls>>
    /\ UNCHANGED processFrame

\* process_image, classification and the template of the type
ClassifyUpload ==
    /\ pc = "read"
    /\ doc_type' = get_gpt_classification(text)
    /\ requested' = Template(doc_type')
    /\ IF requested' = <<>>
       THEN pc' = "failed" /\ outcome' = Unsupported(doc_type')
       ELSE pc' = "classified" /\ UNCHANGED outcome
    /\ UNCHANGED <<extracted_fields, text, calls>>
    /\ UNCHANGED processFrame

\* process_image, get_gpt_extraction(text, doc_type, fields) and the check of
\* its result; image is the file whose path is the text
Recognize ==
    /\ pc = "classified"
    /\ \E prepared \in BOOLEAN :
          /\ extracted_fields' = get_gpt_extraction(image, prepared, requested, response)
          /\ calls' = IF ServiceCalled(image, prepared) THEN calls + 1 ELSE calls
    /\ IF TooManyNotFound(extracted_fields', requested)
       THEN pc' = "failed" /\ outcome' = MostFieldsMissing
       ELSE pc' = "recognized" /\ UNCHANGED outcome
    /\ UNCHANGED <<doc_type, text, requested>>
    /\ UNCHANGED processFrame

\* process_image, the list of fields and the return
BuildFields ==
    /\ pc = "recognized"
    /\ outcome' = <<"returned", doc_type, FieldList(extracted_fields, requested)>>
    /\ pc' = "done"
    /\ UNCHANGED <<doc_type, extracted_fields, text, requested, calls>>
    /\ UNCHANGED processFrame

NextProcess == OpenUpload \/ ReadText \/ ClassifyUpload \/ Recognize \/ BuildFields

SpecProcess == InitProcess /\ [][NextProcess]_vars

-----------------------------------------------------------------------------
(* Claims about process_image *)

\* the recognition call was made and failed: the API raised, answered without
\* a choice, or answered with something that is no JSON object
RecognitionFailed ==
    /\ calls >= 1
    /\ \/ response[1] # "content"
       \/ response[2][1] # "object"

Finished == pc \in {"failed", "done"}

C21_ConversionReason ==
    (pc = "failed" /\ upload.kind = "other")
    => /\ outcome[1] = "raised"
       /\ \/ Contains(Lower(outcome[2]), "malformed")
          \/ Contains(Lower(outcome[2]), "corrupted")

-----------------------------------------------------------------------------
(* endpoints.py: create_document, several requests on one event loop *)

\* most requests in progress
MaxRequests == 2

RequestIds == 1..MaxRequests

\* file.filename as the client sends it
Filenames == {"scan.png", "id.png"}

\* uploaded contents, each named by the text OCR reads from it
Documents == {"WA DRIVER LICENSE", "US PASSPORT"}

\* upload_dir / file.filename
UploadPath(filename) == "uploads/" \o filename

\* temp_path = image_path + '.jpg', image_path being the OCR text
TempPath(contents) == contents \o ".jpg"

Paths == {UploadPath(f) : f \in Filenames} \cup {TempPath(c) : c \in Documents}

\* what process_image does on the contents: the exception it raises, or
\* <<"returned">> for its pair (doc_type, extracted_fields)
ProcessOutcomes ==
    {ConversionFailed, NoReadableText, NotEnoughText, Unsupported(None), MostFieldsMissing,
     <<"returned">>}

\* process_image got as far as get_gpt_extraction
ReachedRecognition(result) == result \in {MostFieldsMissing, <<"returned">>}

\* the detail of the HTTP 400 response: the message process_image raised, or
\* that of unpacking its pair into doc_type, extracted_fields, error_msg
Detail(result) ==
    IF result[1] = "raised" THEN result[2]
    ELSE "not enough values to unpack (expected 3, got 2)"

InitServer ==
    /\ pc = "serving"
    /\ doc_type = ""
    /\ extracted_fields = <<>>
    /\ standardized = <<>>
    /\ is_valid = FALSE
    /\ missing = {}
    /\ removed = ""
    /\ text = ""
    /\ field_name = ""
    /\ value = ""
    /\ cleaned = <<>>
    /\ now = NoDate
    /\ scored = <<>>
    /\ NoRecognition
    /\ upload = <<>>
    /\ requests \in [RequestIds -> [pc : {"received"}, filename : Filenames,
                                    contents : Documents, status : {0}, detail : {""}]]
    /\ files = [p \in Paths |-> None]
    /\ NoDb

\* contents = await file.read(), the one point where the handler yields
ReadUpload(r) ==
    /\ requests[r].pc = "received"
    /\ requests' = [requests EXCEPT ![r].pc = "read"]
    /\ UNCHANGED <<pc, files, upload>>
    /\ UNCHANGED dbVars
    /\ UNCHANGED pipelineVars
    /\ UNCHANGED adapterVars

\* the file the handler leaves under the uploads directory
Saved(fs, req) == [fs EXCEPT ![UploadPath(req.filename)] = req.contents]

\* the rest of create_document, run without yielding: the upload is saved,
\* process_image runs (writing the JPEG copy when the text names an image),
\* and the request is answered
Respond(r) ==
    /\ requests[r].pc = "read"
    /\ \E result \in ProcessOutcomes, copied \in BOOLEAN :
          /\ copied => ReachedRecognition(result)
          /\ files' = IF copied
                      THEN [Saved(files, requests[r])
                               EXCEPT ![TempPath(requests[r].contents)] = "JPEG"]
                      ELSE Saved(files, requests[r])
          /\ requests' = [requests EXCEPT ![r].pc = "responded",
                                          ![r].status = 400,
                                          ![r].detail = Detail(result)]
    /\ UNCHANGED <<pc, upload>>
    /\ UNCHANGED dbVars
    /\ UNCHANGED pipelineVars
    /\ UNCHANGED adapterVars

NextServer == \E r \in RequestIds : ReadUpload(r) \/ Respond(r)

SpecServer == InitServer /\ [][NextServer]_vars

\* C20: requests are independent: whatever the interleaving, and also for two
\* uploads with the same filename, the image stored for an answered request is
\* the one that request uploaded, as it is when the request runs alone.
C20_Independent ==
    \A r \in RequestIds :
        requests[r].pc = "responded"
        => files[UploadPath(requests[r].filename)] = requests[r].contents

-----------------------------------------------------------------------------
(* Recognition results that name their fields through aliases *)

\* the mock responses of test_mock_gpt_extraction, each field with the raw
\* names it may come under: the alias of the test and one more alias of the
\* same canonical name
MockFields ==
    [t \in {"passport", "drivers_license", "ead_card"} |->
        CASE t = "passport" ->
                 << <<{"document_type"}, "PASSPORT">>,
                    <<{"passport_no", "passport_number"}, "123456789">>,
                    <<{"name"}, "JOHN SMITH">>,
                    <<{"nationality"}, "USA">>,
                    <<{"birth_date", "dob"}, "15JAN1985">>,
                    <<{"issued"}, "01JAN2020">>,
                    <<{"expiry", "date_of_expiry"}, "01JAN2030">> >>
          [] t = "drivers_license" ->
                 << <<{"document_type"}, "DRIVER LICENSE">>,
                    <<{"dl", "license_no"}, "D1234567">>,
                    <<{"fname", "given_name"}, "JOHN">>,
                    <<{"lname", "surname"}, "SMITH">>,
                    <<{"dob", "birthdate"}, "05/15/1990">>,
                    <<{"issued_on", "date_of_issue"}, "01/01/2020">>,
                    <<{"expires_on", "expires"}, "05/15/2025">> >>
          [] t = "ead_card" ->
                 << <<{"document_type"}, "EMPLOYMENT AUTHORIZATION">>,
                    <<{"card#", "ead_number"}, "EAD1234567890">>,
                    <<{"first", "fname"}, "MARIA">>,
                    <<{"last", "lname"}, "GARCIA">>,
                    <<{"class", "ead_category"}, "C09">>,
                    <<{"valid_until"}, "01/01/2025">> >>]

RECURSIVE MockResponsesTo(_, _)
\* the responses holding the first n fields of the mock response of type t
MockResponsesTo(t, n) ==
    IF n = 0 THEN {<<>>}
    ELSE {Append(d, <<k, MockFields[t][n][2]>>) :
             d \in MockResponsesTo(t, n - 1), k \in MockFields[t][n][1]}

InitMock ==
    /\ pc = "raw"
    /\ doc_type \in DOMAIN MockFields
    /\ extracted_fields \in MockResponsesTo(doc_type, Len(MockFields[doc_type]))
    /\ standardized = <<>>
    /\ is_valid = FALSE
    /\ missing = {}
    /\ removed = ""
    /\ text = ""
    /\ field_name = ""
    /\ value = ""
    /\ cleaned = <<>>
    /\ now = NoDate
    /\ scored = <<>>
    /\ NoRecognition
    /\ NoServer

SpecMock == InitMock /\ [][Next]_vars

\* C22: a passport, driver's license or EAD result that names its fields only
\* through aliases standardizes to a field set that validates complete, with
\* nothing missing.
C22_AliasedResultsValidate ==
    pc = "validated" => is_valid /\ missing = {}

-----------------------------------------------------------------------------
(* Further properties of the canonicalization *)

\* canonical names the raw fields are stored under, in their order
RawTargets ==
    LET t == NormalizeDocType(doc_type)
    IN  [i \in 1..Len(extracted_fields) |->
            IF SkippedName(extracted_fields[i][1]) THEN ""
            ELSE StdFieldName(extracted_fields[i][1], t)]

\* positions among targets of the raw fields stored under c
RawAt(targets, c) == {i \in 1..Len(targets) : targets[i] = c}

\* positions of the raw full names that the loop splits
SplitAt(targets) ==
    {i \in RawAt(targets, "full_name") :
        /\ Contains(extracted_fields[i][2], " ")
        /\ extracted_fields[i][2] # NOT_FOUND}

First(S) == CHOOSE i \in S : \A j \in S : i <= j

Last(S) == CHOOSE i \in S : \A j \in S : j <= i

PartOf(p, v) == IF p = "first_name" THEN BeforeSpace(v) ELSE AfterSpace(v)

\* the recognition result supplies a name part before every full name
PartBeforeFullName(targets) ==
    /\ SplitAt(targets) # {}
    /\ \E i \in RawAt(targets, "first_name") \cup RawAt(targets, "last_name") :
          i < First(SplitAt(targets))

\* a name part the recognition result supplies keeps the supplied value
SuppliedPartKept(targets) ==
    \A p \in NameParts :
        RawAt(targets, p) # {}
        => /\ DictHas(standardized, p)
           /\ DictGet(standardized, p) = extracted_fields[Last(RawAt(targets, p))][2]

\* C27 as stated: when the output already holds first_name or last_name at
\* the time full_name is processed, the split writes neither name part, and a
\* supplied name part is never replaced by one derived from full_name.
C27_SplitOnlyWhenNeither ==
    Standardized
    => LET targets == RawTargets
       IN  /\ PartBeforeFullName(targets)
              => \A p \in NameParts :
                    RawAt(targets, p) = {} => ~DictHas(standardized, p)
           /\ SuppliedPartKept(targets)

\* C27 amended: the split fills in each name part that no raw field supplies,
\* from the first full name that splits, also when the other part is already
\* there; a supplied name part is never replaced by one derived from
\* full_name.
C27_SplitFillsMissingPart ==
    Standardized
    => LET targets == RawTargets
       IN  /\ \A p \in NameParts :
                 RawAt(targets, p) = {}
                 => IF SplitAt(targets) = {} THEN ~DictHas(standardized, p)
                    ELSE /\ DictHas(standardized, p)
                         /\ DictGet(standardized, p)
                               = PartOf(p, extracted_fields[First(SplitAt(targets))][2])
           /\ SuppliedPartKept(targets)

C27_Witness ==
    /\ pc = "standardized"
    /\ extracted_fields = << <<"first_name", "ALEX">>, <<"full_name", "JOHN SMITH">> >>
    /\ PartBeforeFullName(RawTargets)
    /\ DictGet(standardized, "first_name") = "ALEX"
    /\ DictGet(standardized, "last_name") = "SMITH"

\* a dict as Python compares it: without the order of its items
Items(d) == {d[i] : i \in 1..Len(d)}

\* the items of d other than its document_type label
Fields(d) == {x \in Items(d) : x[1] # "document_type"}

\* C28: canonical names are fixed points of alias resolution: under a known
\* type a raw field named (in lower case) by a required name of the type is stored under that
\* name, and standardize_field_names applied to an output made of the type's
\* required names returns its fields unchanged.
C28_CanonicalFixedPoint ==
    (/\ Standardized
     /\ NormalizeDocType(doc_type) \in KnownTypes
     /\ \A i \in 1..Len(extracted_fields) :
           extracted_fields[i][1] = Lower(extracted_fields[i][1]))
    => LET required == REQUIRED_FIELDS[NormalizeDocType(doc_type)]
       IN  /\ \A i \in 1..Len(extracted_fields) :
                 extracted_fields[i][1] \in required
                 => DictHas(standardized, extracted_fields[i][1])
           /\ DictKeys(standardized) \subseteq required \cup {"document_type", "issue_date"}
              => Fields(standardize_field_names(standardized, doc_type))
                    = Fields(standardized)

\* the orderings of the positions 1..n
Orderings(n) == {f \in [1..n -> 1..n] : \A i, j \in 1..n : f[i] = f[j] => i = j}

\* C29: the output of standardize_field_names does not depend on the order of
\* the raw fields: every ordering of the same raw field/value pairs gives the
\* same canonical field set under the same type.
C29_OrderIndependent ==
    Standardized
    => \A f \in Orderings(Len(extracted_fields)) :
          Items(standardize_field_names(
                   [i \in 1..Len(extracted_fields) |-> extracted_fields[f[i]]], doc_type))
             = Items(standardized)

-----------------------------------------------------------------------------
(* endpoints.py: the document API over the documents and extracted_fields
   tables, one request at a time *)

\* most documents the documents table gives ids to
MaxDocuments == 2

\* most rows of the extracted_fields table
MaxRows == 4

\* sessionmaker(autocommit=False, autoflush=False, bind=engine): a query does
\* not see the rows the same request added to the session
autoflush == FALSE

\* the fields a PATCH request may hold: a field that has a row, one that has
\* none under two values, and the type label
PatchFields ==
    {[field_name |-> "license_number", field_value |-> "B9876543"],
     [field_name |-> "address", field_value |-> "1 Elm St"],
     [field_name |-> "address", field_value |-> "2 Oak Ave"],
     [field_name |-> "document_type", field_value |-> "passport"]}

\* request.fields: one field, or two
PatchRequests ==
    {<<f>> : f \in PatchFields} \cup {<<f, g>> : f \in PatchFields, g \in PatchFields}

\* the file a POST /documents request uploads
ApiUploads == {[filename |-> "scan.png", contents |-> "US PASSPORT"]}

\* the ids a request may name: those the table gives, and one it never gives
DocumentIds == 1..(MaxDocuments + 1)

\* the greatest id of a non-empty table
GreatestId(ids) == CHOOSE i \in ids : \A j \in ids : j <= i

\* the id of the next row of a table with an INTEGER PRIMARY KEY: one more
\* than the greatest id in the table, whatever was deleted before
NextId(ids) == IF ids = {} THEN 1 ELSE GreatestId(ids) + 1

Ids(docs) == {d.id : d \in docs}

\* db.query(DocumentModel).filter(DocumentModel.id == document_id).first()
Document(docs, id) == CHOOSE d \in docs : d.id = id

\* the documents table after db.delete(document) and the commit
Without_Kept(docs, id) == docs

Without(docs, id) == {d \in docs : d.id # id}

\* the rows of a document: Document.fields, and the rows db.delete(document)
\* deletes with it
RowsOf(rows, id) == SelectSeq(rows, LAMBDA r : r.document_id = id)

OtherRows(rows, id) == SelectSeq(rows, LAMBDA r : r.document_id # id)

\* the document of the test_document fixture, with its flat fields
FixtureDocument(id) ==
    [id |-> id,
     filename |-> "test_file.jpg",
     document_type |-> "drivers_license",
     extracted_fields |-> << <<"license_number", "A1234567">>,
                             <<"date_of_birth", "1990-01-15">>,
                             <<"address", "123 Main St, Anytown, USA">> >>]

\* the two rows the fixture adds for it
FixtureRows(id) ==
    << [document_id |-> id, field_name |-> "license_number",
        field_value |-> "A1234567", corrected |-> FALSE],
       [document_id |-> id, field_name |-> "date_of_birth",
        field_value |-> "1990-01-15", corrected |-> FALSE] >>

\* DocumentResponse(...)
DocumentResponse(d) ==
    [id |-> d.id, document_type |-> d.document_type,
     document_content |-> d.extracted_fields, filename |-> d.filename]

\* the request answered last: operation, id named, request body, status and
\* response body
Answer(op, id, request, status, body) ==
    [op |-> op, id |-> id, request |-> request, status |-> status, body |-> body]

NotFound(op, id, request) == Answer(op, id, request, 404, "Document not found")

\* the first row of a document and a field name, 0 when there is none
FirstRow(rows, id, name) ==
    IF \E i \in 1..Len(rows) : rows[i].document_id = id /\ rows[i].field_name = name
    THEN CHOOSE i \in 1..Len(rows) :
            /\ rows[i].document_id = id /\ rows[i].field_name = name
            /\ \A j \in 1..(i - 1) :
                  ~(rows[j].document_id = id /\ rows[j].field_name = name)
    ELSE 0

\* updated_content after the loop of update_document_fields
RECURSIVE UpdatedContent(_, _)
UpdatedContent(content, fields) ==
    IF fields = <<>> THEN content
    ELSE UpdatedContent(IF Head(fields).field_name # "document_type"
                        THEN DictSet(content, Head(fields).field_name,
                                     Head(fields).field_value)
                        ELSE content,
                        Tail(fields))

\* the extracted_fields table after the loop of update_document_fields and
\* its commit: rows are the rows a query sees, added the rows of the session
\* that no query has flushed
RECURSIVE UpdatedRows(_, _, _, _)
UpdatedRows(rows, added, id, fields) ==
    IF fields = <<>> THEN rows \o added
    ELSE LET f == Head(fields)
             i == FirstRow(rows, id, f.field_name)
             new_field == [document_id |-> id, field_name |-> f.field_name,
                           field_value |-> f.field_value, corrected |-> TRUE]
         IN  IF f.field_name = "document_type"
             THEN UpdatedRows(rows, added, id, Tail(fields))
             ELSE IF i # 0
             THEN UpdatedRows([rows EXCEPT ![i].field_value = f.field_value,
                                           ![i].corrected = TRUE],
                              added, id, Tail(fields))
             ELSE IF autoflush
             THEN UpdatedRows(rows \o <<new_field>>, added, id, Tail(fields))
             ELSE UpdatedRows(rows, added \o <<new_field>>, id, Tail(fields))

InitApi ==
    /\ pc = "serving"
    /\ doc_type = ""
    /\ extracted_fields = <<>>
    /\ standardized = <<>>
    /\ is_valid = FALSE
    /\ missing = {}
    /\ removed = ""
    /\ text = ""
    /\ field_name = ""
    /\ value = ""
    /\ cleaned = <<>>
    /\ now = NoDate
    /\ scored = <<>>
    /\ NoRecognition
    /\ upload = <<>>
    /\ requests = <<>>
    /\ files = [p \in Paths |-> None]
    /\ documents = {}
    /\ field_rows = <<>>
    /\ reply = Answer("none", 0, <<>>, 0, "")

apiFrame == <<pc, upload, requests>>

\* the test_document fixture: a document and its rows added to the tables
test_document ==
    /\ NextId(Ids(documents)) <= MaxDocuments
    /\ Len(field_rows) + 2 <= MaxRows
    /\ LET id == NextId(Ids(documents)) IN
          /\ documents' = documents \cup {FixtureDocument(id)}
          /\ field_rows' = field_rows \o FixtureRows(id)
          /\ reply' = Answer("test_document", id, <<>>, 0, "")
    /\ UNCHANGED files
    /\ UNCHANGED apiFrame
    /\ UNCHANGED pipelineVars
    /\ UNCHANGED adapterVars

\* POST /documents: the upload is saved, process_image runs, and its pair is
\* unpacked into three names; the request is answered 400 before any record
\* is created
create_document ==
    /\ \E req \in ApiUploads, result \in ProcessOutcomes :
          /\ files' = Saved(files, req)
          /\ reply' = Answer("create_document", 0, result, 400, Detail(result))
    /\ UNCHANGED <<documents, field_rows>>
    /\ UNCHANGED apiFrame
    /\ UNCHANGED pipelineVars
    /\ UNCHANGED adapterVars

\* GET /documents
get_documents ==
    /\ reply' = Answer("get_documents", 0, <<>>, 200,
                       {DocumentResponse(d) : d \in documents})
    /\ UNCHANGED <<documents, field_rows, files>>
    /\ UNCHANGED apiFrame
    /\ UNCHANGED pipelineVars
    /\ UNCHANGED adapterVars

\* GET /documents/{document_id}
get_document(document_id) ==
    /\ reply' = IF document_id \in Ids(documents)
                THEN Answer("get_document", document_id, <<>>, 200,
                            DocumentResponse(Document(documents, document_id)))
                ELSE NotFound("get_document", document_id, <<>>)
    /\ UNCHANGED <<documents, field_rows, files>>
    /\ UNCHANGED apiFrame
    /\ UNCHANGED pipelineVars
    /\ UNCHANGED adapterVars

\* DELETE /documents/{document_id}: db.delete(document) deletes the document
\* and, by the cascade of Document.fields, the rows that name its id
delete_document(document_id) ==
    /\ IF document_id \in Ids(documents)
       THEN /\ documents' = Without(documents, document_id)
            /\ field_rows' = OtherRows(field_rows, document_id)
            /\ reply' = Answer("delete_document", document_id, <<>>, 200, "success")
       ELSE /\ reply' = NotFound("delete_document", document_id, <<>>)
            /\ UNCHANGED <<documents, field_rows>>
    /\ UNCHANGED files
    /\ UNCHANGED apiFrame
    /\ UNCHANGED pipelineVars
    /\ UNCHANGED adapterVars

\* DELETE /documents: db.query(DocumentModel).delete() is one DELETE on the
\* documents table; no relationship is loaded and no cascade runs
delete_all_documents ==
    /\ documents' = {}
    /\ reply' = Answer("delete_all_documents", 0, <<>>, 200, "success")
    /\ UNCHANGED <<field_rows, files>>
    /\ UNCHANGED apiFrame
    /\ UNCHANGED pipelineVars
    /\ UNCHANGED adapterVars

\* PATCH /documents/{document_id}
update_document_fields(document_id, request) ==
    /\ IF document_id \in Ids(documents)
       THEN LET document == Document(documents, document_id)
                updated == [document EXCEPT !.extracted_fields =
                               UpdatedContent(document.extracted_fields, request)]
            IN  /\ Len(UpdatedRows(field_rows, <<>>, document_id, request)) <= MaxRows
                /\ documents' = (documents \ {document}) \cup {updated}
                /\ field_rows' = UpdatedRows(field_rows, <<>>, document_id, request)
                /\ reply' = Answer("update_document_fields", document_id, request, 200,
                                   DocumentResponse(updated))
       ELSE /\ reply' = NotFound("update_document_fields", document_id, request)
            /\ UNCHANGED <<documents, field_rows>>
    /\ UNCHANGED files
    /\ UNCHANGED apiFrame
    /\ UNCHANGED pipelineVars
    /\ UNCHANGED adapterVars

NextApi ==
    \/ test_document
    \/ create_document
    \/ get_documents
    \/ \E document_id \in DocumentIds : get_document(document_id)
    \/ \E document_id \in DocumentIds : delete_document(document_id)
    \/ delete_all_documents
    \/ \E document_id \in DocumentIds, request \in PatchRequests :
          update_document_fields(document_id, request)

SpecApi == InitApi /\ [][NextApi]_vars

-----------------------------------------------------------------------------
(* Claims about the document API *)

\* the value the last field of that name gives in a PATCH request
LastValue(request, name) ==
    request[CHOOSE i \in 1..Len(request) :
               /\ request[i].field_name = name
               /\ \A j \in (i + 1)..Len(request) : request[j].field_name # name].field_value

PatchedNames(request) ==
    {request[i].field_name : i \in 1..Len(request)} \ {"document_type"}

C25_DeletedStaysDeleted ==
    [][/\ reply'.op = "delete_document"
          => IF reply'.id \in Ids(documents)
             THEN /\ reply'.status = 200
                  /\ reply'.id \notin Ids(documents')
                  /\ Without(documents', reply'.id) = Without(documents, reply'.id)
             ELSE /\ reply'.status = 404
                  /\ documents' = documents
                  /\ field_rows' = field_rows
       /\ reply'.op = "get_document"
          => IF reply'.id \in Ids(documents')
             THEN reply'.status = 200 /\ reply'.body.id = reply'.id
             ELSE reply'.status = 404
       /\ reply'.op = "get_documents"
          => {b.id : b \in reply'.body} = Ids(documents')
       /\ Ids(documents') \ Ids(documents) # {}
          => reply'.op = "test_document"]_vars

C25_Witness ==
    /\ reply.op = "get_document"
    /\ reply.id = 1
    /\ reply.status = 404
    /\ Ids(documents) = {2}

\* C30: every row of the extracted_fields table names a document that
\* exists, and the rows of a newly created document are those created with
\* it.
C30_NoOrphanRows ==
    /\ \A i \in 1..Len(field_rows) : field_rows[i].document_id \in Ids(documents)
    /\ reply.op = "test_document"
       => RowsOf(field_rows, reply.id) = FixtureRows(reply.id)

====
